---------------------------- MODULE Spec2Model ----------------------------
(***************************************************************************)
(* Verification model of the chesscpp2 engine: Position (bitboards,        *)
(* mailbox, Zobrist hash, history stack), MoveGen, Game and the AI search  *)
(* driver.                                                                 *)
(*                                                                         *)
(* Conventions.                                                            *)
(*   - A Bitboard is the set of the indices of its one-bits (a subset of   *)
(*     0..63); |, &, ~ are \cup, \cap and complement in 0..63.             *)
(*   - A HashKey is the formal XOR-sum of entries of the Zobrist tables:   *)
(*     the set of the table entries that occur an odd number of times, so  *)
(*     h ^ k is the symmetric difference.  Two equal sets are equal        *)
(*     64-bit keys in the program.                                         *)
(*   - A Move is the 16-bit integer of Types.h.                            *)
(*   - A string is the sequence of its characters (one-character strings). *)
(***************************************************************************)
EXTENDS Integers, Sequences, FiniteSets, TLC

----------------------------------------------------------------------------
(* Types.h *)

PAWN == 0
KNIGHT == 1
BISHOP == 2
ROOK == 3
QUEEN == 4
KING == 5
NO_PIECE_TYPE == 6

WHITE == 0
BLACK == 1

W_PAWN == 0
W_KING == 5
B_PAWN == 6
B_KING == 11
NO_PIECE == 12

WHITE_OO == 1
WHITE_OOO == 2
BLACK_OO == 4
BLACK_OOO == 8
NO_CASTLING == 0

NORMAL_MOVE == 0
PROMOTION == 16384
EN_PASSANT == 32768
CASTLING == 49152

A1 == 0
B1 == 1
C1 == 2
D1 == 3
E1 == 4
F1 == 5
G1 == 6
H1 == 7
D4 == 27
E4 == 28
A8 == 56
B8 == 57
C8 == 58
D8 == 59
E8 == 60
F8 == 61
G8 == 62
H8 == 63
NO_SQUARE == 64

FILE_A == 0
FILE_D == 3
FILE_F == 5
FILE_H == 7
RANK_1 == 0
RANK_2 == 1
RANK_7 == 6
RANK_8 == 7

Squares == 0..63

makeSquare(file, rank) == rank * 8 + file

fileOf(sq) == sq % 8

rankOf(sq) == sq \div 8

\* operator~(Color)
Flip(c) == 1 - c

MakeMoveBits(from, to) == to * 64 + from

makePromotion(from, to, promoPiece) ==
    PROMOTION + (promoPiece - KNIGHT) * 4096 + to * 64 + from

makeEnPassant(from, to) == EN_PASSANT + to * 64 + from

makeCastling(from, to) == CASTLING + to * 64 + from

fromSquare(m) == m % 64

toSquare(m) == (m \div 64) % 64

moveType(m) == (m \div 16384) * 16384

promotionType(m) == ((m \div 4096) % 4) + KNIGHT

makePiece(c, pt) == c * 6 + pt

colorOf(pc) == pc \div 6

typeOf(pc) == pc % 6

Abs(x) == IF x < 0 THEN -x ELSE x

Max(a, b) == IF a >= b THEN a ELSE b

Min(a, b) == IF a <= b THEN a ELSE b

\* the bit r of the castling mask c
HasRight(c, r) == (c \div r) % 2 = 1

\* c & ~r for a one-bit mask r
ClearRight(c, r) == IF HasRight(c, r) THEN c - r ELSE c

\* c | r for a one-bit mask r
SetRight(c, r) == IF HasRight(c, r) THEN c ELSE c + r

FileChars == <<"a", "b", "c", "d", "e", "f", "g", "h">>

RankChars == <<"1", "2", "3", "4", "5", "6", "7", "8">>

DigitChars == <<"0", "1", "2", "3", "4", "5", "6", "7", "8", "9">>

\* position of character ch in the table tbl, 0 when it is not there
IndexOf(tbl, ch) ==
    IF \E i \in 1..Len(tbl) : tbl[i] = ch
    THEN CHOOSE i \in 1..Len(tbl) : tbl[i] = ch
    ELSE 0

squareToString(sq) ==
    IF sq = NO_SQUARE THEN <<"-">>
    ELSE <<FileChars[fileOf(sq) + 1], RankChars[rankOf(sq) + 1]>>

stringToSquare(str) ==
    IF Len(str) # 2 THEN NO_SQUARE
    ELSE LET file == IndexOf(FileChars, str[1]) - 1
             rank == IndexOf(RankChars, str[2]) - 1
         IN  IF file < 0 \/ file > 7 \/ rank < 0 \/ rank > 7 THEN NO_SQUARE
             ELSE makeSquare(file, rank)

PromoChars == <<"n", "b", "r", "q">>

moveToString(m) ==
    squareToString(fromSquare(m)) \o squareToString(toSquare(m)) \o
    (IF moveType(m) = PROMOTION
     THEN <<PromoChars[promotionType(m) - KNIGHT + 1]>> ELSE <<>>)

----------------------------------------------------------------------------
(* Bitboard.h / Bitboard.cpp *)

SquareSeq == [i \in 1..64 |-> i - 1]

\* the squares of a bitboard in popLsb order
BitsOf(bb) == SelectSeq(SquareSeq, LAMBDA s : s \in bb)

lsb(bb) == IF bb = {} THEN NO_SQUARE ELSE CHOOSE s \in bb : \A t \in bb : s <= t

popCount(bb) == Cardinality(bb)

KnightOffsets == {-17, -15, -10, -6, 6, 10, 15, 17}

KingOffsets == {-9, -8, -7, -1, 1, 7, 8, 9}

isValid(sq) == sq >= 0 /\ sq < 64

isValidKnightMove(from, to) ==
    LET fileDiff == Abs(fileOf(from) - fileOf(to))
        rankDiff == Abs(rankOf(from) - rankOf(to))
    IN  (fileDiff = 1 /\ rankDiff = 2) \/ (fileDiff = 2 /\ rankDiff = 1)

isValidKingMove(from, to) ==
    LET fileDiff == Abs(fileOf(from) - fileOf(to))
        rankDiff == Abs(rankOf(from) - rankOf(to))
    IN  fileDiff <= 1 /\ rankDiff <= 1

\* pawnAttackWest<C>(squareBB(sq)) | pawnAttackEast<C>(squareBB(sq))
PawnAttacks ==
    [c \in {WHITE, BLACK} |->
       [sq \in Squares |->
          LET west == IF fileOf(sq) = FILE_A THEN {}
                      ELSE {IF c = WHITE THEN sq + 7 ELSE sq - 9}
              east == IF fileOf(sq) = FILE_H THEN {}
                      ELSE {IF c = WHITE THEN sq + 9 ELSE sq - 7}
          IN  (west \cup east) \cap Squares]]

KnightAttacks ==
    [sq \in Squares |->
       {sq + o : o \in {o \in KnightOffsets :
                          isValid(sq + o) /\ isValidKnightMove(sq, sq + o)}}]

KingAttacks ==
    [sq \in Squares |->
       {sq + o : o \in {o \in KingOffsets :
                          isValid(sq + o) /\ isValidKingMove(sq, sq + o)}}]

pawnAttacks(c, sq) == PawnAttacks[c][sq]

knightAttacks(sq) == KnightAttacks[sq]

kingAttacks(sq) == KingAttacks[sq]

----------------------------------------------------------------------------
(* Magic.cpp: the attack tables hold slidingAttacks of every occupancy *)

RookDirections == {8, -8, 1, -1}

BishopDirections == {9, 7, -7, -9}

\* the squares one ray of slidingAttacks adds, walking from `from` in `dir`
RECURSIVE RayWalk(_, _, _)
RayWalk(from, dir, occupied) ==
    LET to == from + dir
    IN  IF to < 0 \/ to >= 64 THEN {}
        ELSE IF dir = 1 /\ fileOf(to) = FILE_A THEN {}
        ELSE IF dir = -1 /\ fileOf(to) = FILE_H THEN {}
        ELSE IF dir = 9 /\ fileOf(to) = FILE_A THEN {}
        ELSE IF dir = 7 /\ fileOf(to) = FILE_H THEN {}
        ELSE IF dir = -7 /\ fileOf(to) = FILE_A THEN {}
        ELSE IF dir = -9 /\ fileOf(to) = FILE_H THEN {}
        ELSE IF to \in occupied THEN {to}
        ELSE {to} \cup RayWalk(to, dir, occupied)

slidingAttacks(sq, occupied, directions) ==
    UNION {RayWalk(sq, dir, occupied) : dir \in directions}

rookAttacks(sq, occupied) == slidingAttacks(sq, occupied, RookDirections)

bishopAttacks(sq, occupied) == slidingAttacks(sq, occupied, BishopDirections)

queenAttacks(sq, occupied) ==
    rookAttacks(sq, occupied) \cup bishopAttacks(sq, occupied)

----------------------------------------------------------------------------
(* Zobrist.cpp: the entries of the key tables, named by their place *)

ZobristPsq(pc, sq) == pc * 64 + sq

ZobristEnpassant(file) == 768 + file

ZobristCastling(cr) == 776 + cr

ZobristSideToMove == 792

\* h ^= k
Xor(h, k) == IF k \in h THEN h \ {k} ELSE h \cup {k}


----------------------------------------------------------------------------
(* Position.h / Position.cpp *)

\* Position::clear
ClearedPosition ==
    [byType |-> [i \in 0..5 |-> {}],
     byColor |-> [i \in 0..1 |-> {}],
     board |-> [i \in Squares |-> NO_PIECE],
     stm |-> WHITE,
     castling |-> NO_CASTLING,
     epSquare |-> NO_SQUARE,
     halfmoves |-> 0,
     fullmoves |-> 1,
     positionHash |-> {},
     history |-> <<>>]

putPiece(p, pc, sq) ==
    LET c == colorOf(pc)
        pt == typeOf(pc)
    IN  [p EXCEPT !.byType[pt] = @ \cup {sq},
                  !.byColor[c] = @ \cup {sq},
                  !.board[sq] = pc,
                  !.positionHash = Xor(@, ZobristPsq(pc, sq))]

removePiece(p, sq) ==
    LET pc == p.board[sq]
    IN  IF pc = NO_PIECE THEN p
        ELSE [p EXCEPT !.byType[typeOf(pc)] = @ \ {sq},
                       !.byColor[colorOf(pc)] = @ \ {sq},
                       !.positionHash = Xor(@, ZobristPsq(pc, sq)),
                       !.board[sq] = NO_PIECE]

movePiece(p, from, to) ==
    LET pc == p.board[from]
    IN  putPiece(removePiece(p, from), pc, to)

pieces(p, c, pt) == p.byColor[c] \cap p.byType[pt]

occupied(p) == p.byColor[WHITE] \cup p.byColor[BLACK]

\* history.back().captured = pc
SetCaptured(p, pc) == [p EXCEPT !.history[Len(p.history)].captured = pc]

\* the rook's move of a castling move from `from` to `to`
CastlingRookFrom(from, to) ==
    IF to > from THEN makeSquare(FILE_H, rankOf(from))
    ELSE makeSquare(FILE_A, rankOf(from))

CastlingRookTo(from, to) ==
    IF to > from THEN makeSquare(FILE_F, rankOf(from))
    ELSE makeSquare(FILE_D, rankOf(from))

\* castling rights that a capture on a rook's home square leaves alone
RightsKeptOnCapture(castling, pt, us, captured, from, to) ==
    LET c1 == IF pt = KING
              THEN IF us = WHITE
                   THEN ClearRight(ClearRight(castling, WHITE_OO), WHITE_OOO)
                   ELSE ClearRight(ClearRight(castling, BLACK_OO), BLACK_OOO)
              ELSE castling
        c2 == IF pt = ROOK /\ (from = A1 \/ to = A1) THEN ClearRight(c1, WHITE_OOO) ELSE c1
        c3 == IF pt = ROOK /\ (from = H1 \/ to = H1) THEN ClearRight(c2, WHITE_OO) ELSE c2
        c4 == IF pt = ROOK /\ (from = A8 \/ to = A8) THEN ClearRight(c3, BLACK_OOO) ELSE c3
        c5 == IF pt = ROOK /\ (from = H8 \/ to = H8) THEN ClearRight(c4, BLACK_OO) ELSE c4
    IN  c5

\* Position::makeMove, lines 293-307: the castling rights after the move
UpdateCastlingRights(castling, pt, us, captured, from, to) ==
    LET c1 == IF pt = KING
              THEN IF us = WHITE
                   THEN ClearRight(ClearRight(castling, WHITE_OO), WHITE_OOO)
                   ELSE ClearRight(ClearRight(castling, BLACK_OO), BLACK_OOO)
              ELSE castling
        touch == pt = ROOK \/ captured # NO_PIECE
        c2 == IF touch /\ (from = A1 \/ to = A1) THEN ClearRight(c1, WHITE_OOO) ELSE c1
        c3 == IF touch /\ (from = H1 \/ to = H1) THEN ClearRight(c2, WHITE_OO) ELSE c2
        c4 == IF touch /\ (from = A8 \/ to = A8) THEN ClearRight(c3, BLACK_OOO) ELSE c3
        c5 == IF touch /\ (from = H8 \/ to = H8) THEN ClearRight(c4, BLACK_OO) ELSE c4
    IN  c5

\* Position::makeMove, lines 238-291: the dispatch on the move type
MovePieces(s, move, from, to, pt, us) ==
    LET mt == moveType(move)
    IN  IF mt = NORMAL_MOVE THEN
            LET a == IF s.board[to] # NO_PIECE
                     THEN [removePiece(SetCaptured(s, s.board[to]), to)
                             EXCEPT !.halfmoves = 0]
                     ELSE s
                b == IF pt = PAWN THEN [a EXCEPT !.halfmoves = 0] ELSE a
                c == IF pt = PAWN /\ Abs(from - to) = 16
                     THEN [b EXCEPT !.epSquare = from + (IF us = WHITE THEN 8 ELSE -8)]
                     ELSE b
            IN  movePiece(c, from, to)
        ELSE IF mt = PROMOTION THEN
            LET a == IF s.board[to] # NO_PIECE
                     THEN removePiece(SetCaptured(s, s.board[to]), to)
                     ELSE s
                b == putPiece(removePiece(a, from),
                              makePiece(us, promotionType(move)), to)
            IN  [b EXCEPT !.halfmoves = 0]
        ELSE IF mt = EN_PASSANT THEN
            LET capturedSq == to - (IF us = WHITE THEN 8 ELSE -8)
                a == removePiece(SetCaptured(s, s.board[capturedSq]), capturedSq)
            IN  [movePiece(a, from, to) EXCEPT !.halfmoves = 0]
        ELSE
            movePiece(movePiece(s, from, to),
                      CastlingRookFrom(from, to), CastlingRookTo(from, to))

\* Position::makeMove, lines 293-322: the castling rights, the hash and the side
\* to move once the pieces have moved
FinishMove(s1, pt, us, from, to) ==
    LET cr == UpdateCastlingRights(s1.castling, pt, us,
                                   s1.history[Len(s1.history)].captured, from, to)
        h3 == Xor(s1.positionHash, ZobristCastling(cr))
        h4 == IF s1.epSquare # NO_SQUARE
              THEN Xor(h3, ZobristEnpassant(fileOf(s1.epSquare)))
              ELSE h3
    IN  [s1 EXCEPT !.castling = cr,
                   !.stm = Flip(@),
                   !.fullmoves = IF Flip(s1.stm) = WHITE THEN @ + 1 ELSE @,
                   !.positionHash = Xor(h4, ZobristSideToMove)]

\* Position::makeMove
makeMove(p, move) ==
    LET state == [move |-> move, captured |-> NO_PIECE, castling |-> p.castling,
                  epSquare |-> p.epSquare, halfmoves |-> p.halfmoves,
                  hash |-> p.positionHash]
        from == fromSquare(move)
        to == toSquare(move)
        h1 == IF p.epSquare # NO_SQUARE
              THEN Xor(p.positionHash, ZobristEnpassant(fileOf(p.epSquare)))
              ELSE p.positionHash
        s0 == [p EXCEPT !.history = Append(@, state),
                        !.positionHash = Xor(h1, ZobristCastling(p.castling)),
                        !.epSquare = NO_SQUARE,
                        !.halfmoves = @ + 1]
    IN  FinishMove(MovePieces(s0, move, from, to, typeOf(p.board[from]), p.stm),
                   typeOf(p.board[from]), p.stm, from, to)

\* Position::unmakeMove, lines 348-400: the pieces put back
UnmovePieces(s, state, from, to, us) ==
    LET mt == moveType(state.move)
    IN  IF mt = NORMAL_MOVE THEN
            LET a == putPiece(removePiece(s, to), s.board[to], from)
            IN  IF state.captured # NO_PIECE THEN putPiece(a, state.captured, to)
                ELSE a
        ELSE IF mt = PROMOTION THEN
            LET a == putPiece(removePiece(s, to), makePiece(us, PAWN), from)
            IN  IF state.captured # NO_PIECE THEN putPiece(a, state.captured, to)
                ELSE a
        ELSE IF mt = EN_PASSANT THEN
            LET a == putPiece(removePiece(s, to), s.board[to], from)
                capturedSq == to - (IF us = WHITE THEN 8 ELSE -8)
            IN  putPiece(a, state.captured, capturedSq)
        ELSE
            LET a == putPiece(removePiece(s, to), s.board[to], from)
                rookFrom == CastlingRookFrom(from, to)
                rookTo == CastlingRookTo(from, to)
            IN  putPiece(removePiece(a, rookTo), a.board[rookTo], rookFrom)

\* Position::unmakeMove
unmakeMove(p) ==
    IF p.history = <<>> THEN p
    ELSE
    LET state == p.history[Len(p.history)]
        from == fromSquare(state.move)
        to == toSquare(state.move)
        us == Flip(p.stm)
        s0 == [p EXCEPT !.history = SubSeq(@, 1, Len(@) - 1),
                        !.stm = us,
                        !.castling = state.castling,
                        !.epSquare = state.epSquare,
                        !.halfmoves = state.halfmoves,
                        !.positionHash = state.hash,
                        !.fullmoves = IF us = BLACK THEN @ - 1 ELSE @]
        \* putPiece and removePiece also XOR the hash; the code assigns the saved
        \* hash before them, so the piece keys are XORed into the restored hash
    IN  UnmovePieces(s0, state, from, to, us)


\* Position::makeNullMove
makeNullMove(p) ==
    LET state == [move |-> 0, captured |-> NO_PIECE, castling |-> p.castling,
                  epSquare |-> p.epSquare, halfmoves |-> p.halfmoves,
                  hash |-> p.positionHash]
        h1 == IF p.epSquare # NO_SQUARE
              THEN Xor(p.positionHash, ZobristEnpassant(fileOf(p.epSquare)))
              ELSE p.positionHash
        stm2 == Flip(p.stm)
    IN  [p EXCEPT !.history = Append(@, state),
                  !.epSquare = NO_SQUARE,
                  !.stm = stm2,
                  !.positionHash = Xor(h1, ZobristSideToMove),
                  !.halfmoves = @ + 1,
                  !.fullmoves = IF stm2 = WHITE THEN @ + 1 ELSE @]

\* Position::unmakeNullMove
unmakeNullMove(p) ==
    IF p.history = <<>> THEN p
    ELSE
    LET state == p.history[Len(p.history)]
        stm2 == Flip(p.stm)
    IN  [p EXCEPT !.history = SubSeq(@, 1, Len(@) - 1),
                  !.stm = stm2,
                  !.castling = state.castling,
                  !.epSquare = state.epSquare,
                  !.halfmoves = state.halfmoves,
                  !.positionHash = state.hash,
                  !.fullmoves = IF stm2 = BLACK THEN @ - 1 ELSE @]

\* Position::isAttacked
isAttacked(p, sq, attackerColor) ==
    LET occ == occupied(p)
    IN  \/ pawnAttacks(Flip(attackerColor), sq) \cap pieces(p, attackerColor, PAWN) # {}
        \/ knightAttacks(sq) \cap pieces(p, attackerColor, KNIGHT) # {}
        \/ kingAttacks(sq) \cap pieces(p, attackerColor, KING) # {}
        \/ bishopAttacks(sq, occ) \cap
             (pieces(p, attackerColor, BISHOP) \cup pieces(p, attackerColor, QUEEN)) # {}
        \/ rookAttacks(sq, occ) \cap
             (pieces(p, attackerColor, ROOK) \cup pieces(p, attackerColor, QUEEN)) # {}

\* Position::inCheck
inCheck(p) == isAttacked(p, lsb(pieces(p, p.stm, KING)), Flip(p.stm))

\* Position::materialCount
materialCount(p, c) ==
    popCount(pieces(p, c, PAWN)) * 100 + popCount(pieces(p, c, KNIGHT)) * 320 +
    popCount(pieces(p, c, BISHOP)) * 330 + popCount(pieces(p, c, ROOK)) * 500 +
    popCount(pieces(p, c, QUEEN)) * 900

----------------------------------------------------------------------------
(* MoveGen.cpp *)

\* the concatenation of the sequences ss[1], ss[2], ...
RECURSIVE Flatten(_)
Flatten(ss) == IF ss = <<>> THEN <<>> ELSE Head(ss) \o Flatten(Tail(ss))

\* the concatenation of Op(s[1]), Op(s[2]), ...
FlatMap(s, Op(_)) == Flatten([i \in 1..Len(s) |-> Op(s[i])])

\* the four promotions of a pawn move, in the order they are pushed
Promotions(from, to) ==
    <<makePromotion(from, to, QUEEN), makePromotion(from, to, ROOK),
      makePromotion(from, to, BISHOP), makePromotion(from, to, KNIGHT)>>

\* MoveGen::generatePawnMoves<Us>
generatePawnMoves(p, us, from) ==
    LET them == Flip(us)
        up == IF us = WHITE THEN 8 ELSE -8
        promotionRank == IF us = WHITE THEN RANK_7 ELSE RANK_2
        startRank == IF us = WHITE THEN RANK_2 ELSE RANK_7
        to == from + up
        occ == occupied(p)
        pushes ==
            IF to \notin occ THEN
                IF rankOf(from) = promotionRank THEN Promotions(from, to)
                ELSE <<MakeMoveBits(from, to)>> \o
                     (IF rankOf(from) = startRank /\ (from + 2 * up) \notin occ
                      THEN <<MakeMoveBits(from, from + 2 * up)>> ELSE <<>>)
            ELSE <<>>
        attacks == pawnAttacks(us, from)
        captureTargets == BitsOf(attacks \cap p.byColor[them])
        captures ==
            FlatMap(captureTargets,
                    LAMBDA t : IF rankOf(from) = promotionRank THEN Promotions(from, t)
                               ELSE <<MakeMoveBits(from, t)>>)
        epSq == p.epSquare
        enPassant == IF epSq # NO_SQUARE /\ epSq \in attacks
                     THEN <<makeEnPassant(from, epSq)>> ELSE <<>>
    IN  pushes \o captures \o enPassant

\* the attack set generatePieceMoves<Pt> looks up for a piece on `from`
PieceAttacks(pt, from, occ) ==
    IF pt = KNIGHT THEN knightAttacks(from)
    ELSE IF pt = BISHOP THEN bishopAttacks(from, occ)
    ELSE IF pt = ROOK THEN rookAttacks(from, occ)
    ELSE IF pt = QUEEN THEN queenAttacks(from, occ)
    ELSE kingAttacks(from)

\* MoveGen::generatePieceMoves<Pt>
generatePieceMoves(p, pt, us, bb) ==
    LET targets == Squares \ p.byColor[us]
        occ == occupied(p)
    IN  FlatMap(BitsOf(bb),
                LAMBDA from :
                    LET atk == BitsOf(PieceAttacks(pt, from, occ) \cap targets)
                    IN  [i \in 1..Len(atk) |-> MakeMoveBits(from, atk[i])])

\* a faulty generateCastling that emits no castling move; the perft counts
\* from Kiwipete tell it from the real one
NoCastling(p, us) == <<>>

\* a faulty generateCastling that looks only at the squares the king starts
\* from and arrives on, not at the square it passes
CastlingOverAttackedSquare(p, us) ==
    LET them == Flip(us)
        occ == occupied(p)
        kingside ==
            IF us = WHITE /\ HasRight(p.castling, WHITE_OO) THEN
                IF occ \cap {F1, G1} = {} /\ ~isAttacked(p, E1, them) /\ ~isAttacked(p, G1, them)
                THEN <<makeCastling(E1, G1)>> ELSE <<>>
            ELSE IF us = BLACK /\ HasRight(p.castling, BLACK_OO) THEN
                IF occ \cap {F8, G8} = {} /\ ~isAttacked(p, E8, them) /\ ~isAttacked(p, G8, them)
                THEN <<makeCastling(E8, G8)>> ELSE <<>>
            ELSE <<>>
        queenside ==
            IF us = WHITE /\ HasRight(p.castling, WHITE_OOO) THEN
                IF occ \cap {B1, C1, D1} = {} /\ ~isAttacked(p, E1, them) /\ ~isAttacked(p, C1, them)
                THEN <<makeCastling(E1, C1)>> ELSE <<>>
            ELSE IF us = BLACK /\ HasRight(p.castling, BLACK_OOO) THEN
                IF occ \cap {B8, C8, D8} = {} /\ ~isAttacked(p, E8, them) /\ ~isAttacked(p, C8, them)
                THEN <<makeCastling(E8, C8)>> ELSE <<>>
            ELSE <<>>
    IN  IF inCheck(p) THEN <<>> ELSE kingside \o queenside

\* MoveGen::generateCastling<Us>
generateCastling(p, us) ==
    LET them == Flip(us)
        occ == occupied(p)
        rights == p.castling
        kingside ==
            IF us = WHITE /\ HasRight(rights, WHITE_OO) THEN
                IF occ \cap {F1, G1} = {} /\ ~isAttacked(p, E1, them) /\
                   ~isAttacked(p, F1, them) /\ ~isAttacked(p, G1, them)
                THEN <<makeCastling(E1, G1)>> ELSE <<>>
            ELSE IF us = BLACK /\ HasRight(rights, BLACK_OO) THEN
                IF occ \cap {F8, G8} = {} /\ ~isAttacked(p, E8, them) /\
                   ~isAttacked(p, F8, them) /\ ~isAttacked(p, G8, them)
                THEN <<makeCastling(E8, G8)>> ELSE <<>>
            ELSE <<>>
        queenside ==
            IF us = WHITE /\ HasRight(rights, WHITE_OOO) THEN
                IF occ \cap {B1, C1, D1} = {} /\ ~isAttacked(p, E1, them) /\
                   ~isAttacked(p, D1, them) /\ ~isAttacked(p, C1, them)
                THEN <<makeCastling(E1, C1)>> ELSE <<>>
            ELSE IF us = BLACK /\ HasRight(rights, BLACK_OOO) THEN
                IF occ \cap {B8, C8, D8} = {} /\ ~isAttacked(p, E8, them) /\
                   ~isAttacked(p, D8, them) /\ ~isAttacked(p, C8, them)
                THEN <<makeCastling(E8, C8)>> ELSE <<>>
            ELSE <<>>
    IN  IF inCheck(p) THEN <<>> ELSE kingside \o queenside

\* MoveGen::generatePseudoLegalMoves
generatePseudoLegalMoves(p) ==
    LET us == p.stm
    IN  FlatMap(BitsOf(pieces(p, us, PAWN)), LAMBDA sq : generatePawnMoves(p, us, sq))
        \o generatePieceMoves(p, KNIGHT, us, pieces(p, us, KNIGHT))
        \o generatePieceMoves(p, BISHOP, us, pieces(p, us, BISHOP))
        \o generatePieceMoves(p, ROOK, us, pieces(p, us, ROOK))
        \o generatePieceMoves(p, QUEEN, us, pieces(p, us, QUEEN))
        \o generatePieceMoves(p, KING, us, pieces(p, us, KING))
        \o generateCastling(p, us)

\* MoveGen::isLegal once the move is made: the flag it returns and the position
\* it leaves behind
IsLegalAfter(q, us) ==
    [legal |-> ~isAttacked(q, lsb(pieces(q, us, KING)), q.stm),
     pos |-> unmakeMove(q)]

\* MoveGen::isLegal: [legal |-> the flag returned, pos |-> the position left behind]
RunIsLegal(p, move) == IsLegalAfter(makeMove(p, move), p.stm)

isLegal(p, move) == RunIsLegal(p, move).legal

RECURSIVE LegalLoop(_, _, _)
RECURSIVE LegalPush(_, _, _, _)

\* MoveGen::generateLegalMoves, the loop from the i-th pseudo-legal move on:
\* r.pos is the position as the calls of isLegal have left it so far
LegalLoop(r, pseudoMoves, i) ==
    IF i > Len(pseudoMoves) THEN r
    ELSE LegalPush(r.moves, pseudoMoves, i, RunIsLegal(r.pos, pseudoMoves[i]))

\* the body of the loop, after the call of isLegal
LegalPush(moves, pseudoMoves, i, il) ==
    IF il.legal
    THEN LegalLoop([moves |-> Append(moves, pseudoMoves[i]), pos |-> il.pos],
                   pseudoMoves, i + 1)
    ELSE LegalLoop([moves |-> moves, pos |-> il.pos], pseudoMoves, i + 1)

\* MoveGen::generateLegalMoves: [moves |-> the list returned, pos |-> the position
\* left behind]
RunGenerateLegalMoves(p) ==
    LegalLoop([moves |-> <<>>, pos |-> p], generatePseudoLegalMoves(p), 1)

generateLegalMoves(p) == RunGenerateLegalMoves(p).moves

AfterGenerateLegalMoves(p) == RunGenerateLegalMoves(p).pos


----------------------------------------------------------------------------
(* FEN strings: a FEN is the sequence of its whitespace-separated fields,   *)
(* as `iss >> field` reads them, each field the sequence of its characters. *)

\* rnbqkbnr/pppppppp/8/8/8/8/PPPPPPPP/RNBQKBNR w KQkq - 0 1
STARTING_FEN ==
    << <<"r", "n", "b", "q", "k", "b", "n", "r", "/", "p", "p", "p", "p", "p", "p", "p", "p", "/", "8", "/", "8", "/", "8", "/", "8", "/", "P", "P", "P", "P", "P", "P", "P", "P", "/", "R", "N", "B", "Q", "K", "B", "N", "R">>,
       <<"w">>,
       <<"K", "Q", "k", "q">>,
       <<"-">>,
       <<"0">>,
       <<"1">> >>

\* r3k2r/p1ppqpb1/bn2pnp1/3PN3/1p2P3/2N2Q1p/PPPBBPPP/R3K2R w KQkq - 0 1
KiwipeteFEN ==
    << <<"r", "3", "k", "2", "r", "/", "p", "1", "p", "p", "q", "p", "b", "1", "/", "b", "n", "2", "p", "n", "p", "1", "/", "3", "P", "N", "3", "/", "1", "p", "2", "P", "3", "/", "2", "N", "2", "Q", "1", "p", "/", "P", "P", "P", "B", "B", "P", "P", "P", "/", "R", "3", "K", "2", "R">>,
       <<"w">>,
       <<"K", "Q", "k", "q">>,
       <<"-">>,
       <<"0">>,
       <<"1">> >>

\* r3k2r/8/8/8/8/8/8/R3K2R w KQkq - 0 1
CastlingFEN ==
    << <<"r", "3", "k", "2", "r", "/", "8", "/", "8", "/", "8", "/", "8", "/", "8", "/", "8", "/", "R", "3", "K", "2", "R">>,
       <<"w">>,
       <<"K", "Q", "k", "q">>,
       <<"-">>,
       <<"0">>,
       <<"1">> >>

\* 1n6/P7/8/8/8/8/8/4K2k w - - 0 1
PromotionFEN ==
    << <<"1", "n", "6", "/", "P", "7", "/", "8", "/", "8", "/", "8", "/", "8", "/", "8", "/", "4", "K", "2", "k">>,
       <<"w">>,
       <<"-">>,
       <<"-">>,
       <<"0">>,
       <<"1">> >>

\* 8/8/8/pP6/8/8/8/4K2k w - a6 0 1
EnPassantFEN ==
    << <<"8", "/", "8", "/", "8", "/", "p", "P", "6", "/", "8", "/", "8", "/", "8", "/", "4", "K", "2", "k">>,
       <<"w">>,
       <<"-">>,
       <<"a", "6">>,
       <<"0">>,
       <<"1">> >>

\* 4k3/8/8/8/1p6/8/P7/4K3 w - - 3 10
DoublePushFEN ==
    << <<"4", "k", "3", "/", "8", "/", "8", "/", "8", "/", "1", "p", "6", "/", "8", "/", "P", "7", "/", "4", "K", "3">>,
       <<"w">>,
       <<"-">>,
       <<"-">>,
       <<"3">>,
       <<"1", "0">> >>

\* 4k3/4r3/8/8/8/8/4B3/4K3 w - - 0 1
PinnedFEN ==
    << <<"4", "k", "3", "/", "4", "r", "3", "/", "8", "/", "8", "/", "8", "/", "8", "/", "4", "B", "3", "/", "4", "K", "3">>,
       <<"w">>,
       <<"-">>,
       <<"-">>,
       <<"0">>,
       <<"1">> >>

\* an en-passant field that names a square of rank 4 behind which no pawn
\* stands: 4k3/8/8/8/8/8/8/4K3 w - e4 0 1
StrayEnPassantFEN ==
    << <<"4", "k", "3", "/", "8", "/", "8", "/", "8", "/", "8", "/", "8", "/", "8", "/", "4", "K", "3">>,
       <<"w">>,
       <<"-">>,
       <<"e", "4">>,
       <<"0">>,
       <<"1">> >>

\* an illegal character in the placement: 4k3/8/8/3x4/8/8/8/4K3 w - - 0 1
BadCharFEN ==
    << <<"4", "k", "3", "/", "8", "/", "8", "/", "3", "x", "4", "/", "8", "/", "8", "/", "8", "/", "4", "K", "3">>,
       <<"w">>,
       <<"-">>,
       <<"-">>,
       <<"0">>,
       <<"1">> >>

\* four fields: 4k3/8/8/8/8/8/8/4K3 w - -
FourFieldFEN ==
    << <<"4", "k", "3", "/", "8", "/", "8", "/", "8", "/", "8", "/", "8", "/", "8", "/", "4", "K", "3">>,
       <<"w">>,
       <<"-">>,
       <<"-">> >>

\* the placement alone: 4k3/8/8/8/8/8/8/4K3
OneFieldFEN ==
    << <<"4", "k", "3", "/", "8", "/", "8", "/", "8", "/", "8", "/", "8", "/", "8", "/", "4", "K", "3">> >>

\* nine squares on rank 7: r3k3/ppppppppK/8/8/8/8/8/8 w - - 0 1
LongRankFEN ==
    << <<"r", "3", "k", "3", "/", "p", "p", "p", "p", "p", "p", "p", "p", "K", "/", "8", "/", "8", "/", "8", "/", "8", "/", "8", "/", "8">>,
       <<"w">>,
       <<"-">>,
       <<"-">>,
       <<"0">>,
       <<"1">> >>


\* the decimal digits of n >= 0, as operator<< writes an int
RECURSIVE IntToString(_)
IntToString(n) ==
    IF n < 10 THEN <<DigitChars[n + 1]>>
    ELSE IntToString(n \div 10) \o <<DigitChars[(n % 10) + 1]>>

isdigit(ch) == IndexOf(DigitChars, ch) # 0

\* the number of leading digits of the field
RECURSIVE DigitPrefixLen(_)
DigitPrefixLen(str) ==
    IF str = <<>> \/ ~isdigit(Head(str)) THEN 0 ELSE 1 + DigitPrefixLen(Tail(str))

\* the value of a sequence of digits
RECURSIVE DigitsValue(_)
DigitsValue(str) ==
    IF str = <<>> THEN 0
    ELSE DigitsValue(SubSeq(str, 1, Len(str) - 1)) * 10 +
         (IndexOf(DigitChars, str[Len(str)]) - 1)

\* the i-th field read by `iss >> string`, empty when the stream has run out
Field(fen, i) == IF i <= Len(fen) THEN fen[i] ELSE <<>>

\* `iss >> halfmoveStr >> fullmoveStr` (operator>> for int): an extraction from a
\* stream that already ran out or failed leaves the variable as it was, and the
\* two variables are declared without an initial value, so they then hold the
\* indeterminate values junk[1] and junk[2]; an extraction that finds no digit
\* stores 0 and fails the stream.
ReadCounters(fen, junk) ==
    LET t5 == Field(fen, 5)
        t6 == Field(fen, 6)
        n5 == DigitPrefixLen(t5)
        n6 == DigitPrefixLen(t6)
        half == IF Len(fen) < 5 THEN junk[1]
                ELSE IF n5 = 0 THEN 0 ELSE DigitsValue(SubSeq(t5, 1, n5))
        full == IF Len(fen) < 5 \/ n5 = 0 THEN junk[2]
                ELSE IF n5 < Len(t5) THEN 0
                ELSE IF Len(fen) < 6 THEN junk[2]
                ELSE IF n6 = 0 THEN 0 ELSE DigitsValue(SubSeq(t6, 1, n6))
    IN  <<half, full>>

WhitePieceChars == <<"P", "N", "B", "R", "Q", "K">>

BlackPieceChars == <<"p", "n", "b", "r", "q", "k">>

\* Position::setFromFEN, lines 69-106: the loop over the placement from its
\* i-th character; st = [pos, rank, file, ok], ok = FALSE once `return false` ran
RECURSIVE ParsePlacement(_, _, _)
ParsePlacement(st, placement, i) ==
    IF i > Len(placement) \/ ~st.ok THEN st
    ELSE
    LET ch == placement[i]
        w == IndexOf(WhitePieceChars, ch)
        b == IndexOf(BlackPieceChars, ch)
    IN  IF ch = "/" THEN
            ParsePlacement([st EXCEPT !.rank = @ - 1, !.file = 0], placement, i + 1)
        ELSE IF isdigit(ch) THEN
            ParsePlacement([st EXCEPT !.file = @ + IndexOf(DigitChars, ch) - 1],
                           placement, i + 1)
        ELSE IF w # 0 \/ b # 0 THEN
            LET pc == IF w # 0 THEN makePiece(WHITE, w - 1) ELSE makePiece(BLACK, b - 1)
            IN  ParsePlacement([st EXCEPT
                                  !.pos = putPiece(@, pc, makeSquare(st.file, st.rank)),
                                  !.file = @ + 1],
                               placement, i + 1)
        ELSE [st EXCEPT !.ok = FALSE]

\* Position::setFromFEN, lines 111-128
RECURSIVE ParseCastling(_)
ParseCastling(str) ==
    IF str = <<>> THEN NO_CASTLING
    ELSE LET rest == ParseCastling(Tail(str))
             ch == Head(str)
         IN  IF ch = "K" THEN SetRight(rest, WHITE_OO)
             ELSE IF ch = "Q" THEN SetRight(rest, WHITE_OOO)
             ELSE IF ch = "k" THEN SetRight(rest, BLACK_OO)
             ELSE IF ch = "q" THEN SetRight(rest, BLACK_OOO)
             ELSE rest

\* Position::setFromFEN, lines 108-150, after the placement: st.pos holds the
\* pieces
ParseState(st, stm, castling, epSquare, counters) ==
    LET h1 == IF stm = BLACK THEN Xor(st.pos.positionHash, ZobristSideToMove)
              ELSE st.pos.positionHash
        h2 == Xor(h1, ZobristCastling(castling))
    IN  IF ~st.ok THEN [ok |-> FALSE, pos |-> st.pos]
        ELSE [ok |-> TRUE,
              pos |-> [st.pos EXCEPT
                         !.stm = stm,
                         !.castling = castling,
                         !.epSquare = epSquare,
                         !.halfmoves = counters[1],
                         !.fullmoves = counters[2],
                         !.positionHash =
                            IF epSquare # NO_SQUARE
                            THEN Xor(h2, ZobristEnpassant(fileOf(epSquare)))
                            ELSE h2]]

\* Position::setFromFEN: [ok |-> the flag returned, pos |-> the Position afterwards]
setFromFEN(fen, junk) ==
    ParseState(ParsePlacement([pos |-> ClearedPosition, rank |-> 7, file |-> 0,
                               ok |-> TRUE], Field(fen, 1), 1),
               IF Field(fen, 2) = <<"w">> THEN WHITE ELSE BLACK,
               ParseCastling(Field(fen, 3)),
               stringToSquare(Field(fen, 4)),
               ReadCounters(fen, junk))

\* Position::getFEN, lines 157-180: rank `rank` from file `file` on, after a run
\* of `empty` empty squares
RECURSIVE EmitRank(_, _, _, _)
EmitRank(p, rank, file, empty) ==
    IF file = 8 THEN (IF empty > 0 THEN IntToString(empty) ELSE <<>>)
    ELSE
    LET pc == p.board[makeSquare(file, rank)]
    IN  IF pc = NO_PIECE THEN EmitRank(p, rank, file + 1, empty + 1)
        ELSE (IF empty > 0 THEN IntToString(empty) ELSE <<>>) \o
             <<IF colorOf(pc) = WHITE THEN WhitePieceChars[typeOf(pc) + 1]
               ELSE BlackPieceChars[typeOf(pc) + 1]>> \o
             EmitRank(p, rank, file + 1, 0)

RECURSIVE EmitPlacement(_, _)
EmitPlacement(p, rank) ==
    EmitRank(p, rank, 0, 0) \o
    (IF rank > 0 THEN <<"/">> \o EmitPlacement(p, rank - 1) ELSE <<>>)

\* Position::getFEN
getFEN(p) ==
    << EmitPlacement(p, 7),
       IF p.stm = WHITE THEN <<"w">> ELSE <<"b">>,
       IF p.castling = NO_CASTLING THEN <<"-">>
       ELSE (IF HasRight(p.castling, WHITE_OO) THEN <<"K">> ELSE <<>>) \o
            (IF HasRight(p.castling, WHITE_OOO) THEN <<"Q">> ELSE <<>>) \o
            (IF HasRight(p.castling, BLACK_OO) THEN <<"k">> ELSE <<>>) \o
            (IF HasRight(p.castling, BLACK_OOO) THEN <<"q">> ELSE <<>>),
       squareToString(p.epSquare),
       IntToString(p.halfmoves),
       IntToString(p.fullmoves) >>

\* Position::Position
NewPosition == setFromFEN(STARTING_FEN, <<0, 0>>).pos

----------------------------------------------------------------------------
(* Position::isDraw is declared in Position.h and called by Game.cpp; its   *)
(* body is not in the sources, so it follows the specification's is-draw.   *)

\* the squares of one colour of the chequered board
SameColourSquares(bb) ==
    \A a \in bb : \A b \in bb : (fileOf(a) + rankOf(a)) % 2 = (fileOf(b) + rankOf(b)) % 2

isInsufficientMaterial(p) ==
    /\ p.byType[PAWN] = {} /\ p.byType[ROOK] = {} /\ p.byType[QUEEN] = {}
    /\ \/ popCount(p.byType[KNIGHT]) + popCount(p.byType[BISHOP]) <= 1
       \/ p.byType[KNIGHT] = {} /\ SameColourSquares(p.byType[BISHOP])

\* the occurrences of the current hash: the position itself and the entries of
\* the history since the last irreversible move
repetitionCount(p) ==
    LET n == Len(p.history)
        k == Min(n, Max(p.halfmoves, 0))
    IN  1 + Cardinality({i \in (n - k + 1)..n : p.history[i].hash = p.positionHash})

isDraw(p) ==
    isInsufficientMaterial(p) \/ p.halfmoves >= 100 \/ repetitionCount(p) >= 3

----------------------------------------------------------------------------
(* Game.h / Game.cpp: a Game is [position, result] *)

IN_PROGRESS == 0

WHITE_WINS == 1

BLACK_WINS == 2

DRAW == 3

\* Game::updateGameResult, once generateLegalMoves has returned r.moves and left
\* the position r.pos
ResultFor(result, r) ==
    [position |-> r.pos,
     result |-> IF r.moves = <<>>
                THEN IF inCheck(r.pos)
                     THEN IF r.pos.stm = WHITE THEN BLACK_WINS ELSE WHITE_WINS
                     ELSE DRAW
                ELSE IF isDraw(r.pos) THEN DRAW ELSE result]

\* Game::updateGameResult
updateGameResult(g) == ResultFor(g.result, RunGenerateLegalMoves(g.position))

\* Game::reset
reset(g) == [position |-> NewPosition, result |-> IN_PROGRESS]

\* Game::Game
NewGame == reset([position |-> ClearedPosition, result |-> IN_PROGRESS])

UpperPromoChars == <<"N", "B", "R", "Q">>

\* Game::parseMove
parseMove(g, moveStr) ==
    IF Len(moveStr) < 4 THEN 0
    ELSE
    LET from == stringToSquare(SubSeq(moveStr, 1, 2))
        to == stringToSquare(SubSeq(moveStr, 3, 4))
    IN  IF from = NO_SQUARE \/ to = NO_SQUARE THEN 0
        ELSE IF Len(moveStr) >= 5 THEN
            LET promoPiece == moveStr[5]
                i == Max(IndexOf(PromoChars, promoPiece),
                         IndexOf(UpperPromoChars, promoPiece))
            IN  IF i = 0 THEN 0 ELSE makePromotion(from, to, KNIGHT + i - 1)
        ELSE
            LET pc == g.position.board[from]
            IN  IF pc = NO_PIECE THEN 0
                ELSE IF typeOf(pc) = KING /\ Abs(from - to) = 2
                     THEN makeCastling(from, to)
                ELSE IF typeOf(pc) = PAWN /\ to = g.position.epSquare
                     THEN makeEnPassant(from, to)
                ELSE MakeMoveBits(from, to)

\* Game::makeMove(Move), once generateLegalMoves has returned r.moves and left the
\* position r.pos
MakeMoveIfLegal(g, move, r) ==
    IF IndexOf(r.moves, move) = 0
    THEN [ok |-> FALSE, game |-> [g EXCEPT !.position = r.pos]]
    ELSE [ok |-> TRUE,
          game |-> updateGameResult([g EXCEPT !.position = makeMove(r.pos, move)])]

\* Game::makeMove(Move): [ok |-> the flag returned, game |-> the Game afterwards]
GameMakeMove(g, move) == MakeMoveIfLegal(g, move, RunGenerateLegalMoves(g.position))

\* Game::makeMove(const std::string&), once parseMove has returned `move`
MakeParsedMove(g, move) ==
    IF move = 0 THEN [ok |-> FALSE, game |-> g] ELSE GameMakeMove(g, move)

\* Game::makeMove(const std::string&)
GameMakeMoveString(g, moveStr) == MakeParsedMove(g, parseMove(g, moveStr))

\* Game::loadFEN, once setFromFEN has returned r.ok and left the position r.pos
LoadParsed(g, r) ==
    IF r.ok THEN [ok |-> TRUE, game |-> updateGameResult([g EXCEPT !.position = r.pos])]
    ELSE [ok |-> FALSE, game |-> [g EXCEPT !.position = r.pos]]

\* Game::loadFEN
loadFEN(g, fen, junk) == LoadParsed(g, setFromFEN(fen, junk))

----------------------------------------------------------------------------
(* AI.cpp: the static evaluation *)

\* a / b of two ints, b > 0: the quotient is truncated towards zero
CDiv(a, b) == IF a >= 0 THEN a \div b ELSE -((-a) \div b)

RECURSIVE SumSeq(_)
SumSeq(s) == IF s = <<>> THEN 0 ELSE Head(s) + SumSeq(Tail(s))

\* BB::fileBB(int)
fileBB(file) == {sq \in Squares : fileOf(sq) = file}

\* sq ^ 56: the square mirrored in the middle of the board
FlipRank(sq) == makeSquare(fileOf(sq), 7 - rankOf(sq))

\* namespace PST: the entry for square sq is the (sq + 1)-th of a table
PST ==
    [pawn |->
      <<  0,   0,   0,   0,   0,   0,   0,   0,
          5,  10,  10, -20, -20,  10,  10,   5,
          5,  10,  20,  40,  40,  20,  10,   5,
         10,  15,  30,  70,  70,  30,  15,  10,
         15,  20,  35,  80,  80,  35,  20,  15,
         20,  25,  30,  35,  35,  30,  25,  20,
         50,  50,  50,  50,  50,  50,  50,  50,
          0,   0,   0,   0,   0,   0,   0,   0>>,
     knight |->
      <<-50, -40, -30, -25, -25, -30, -40, -50,
        -40, -20,   0,   5,   5,   0, -20, -40,
        -30,   5,  10,  15,  15,  10,   5, -30,
        -25,   5,  15,  20,  20,  15,   5, -25,
        -25,   5,  15,  20,  20,  15,   5, -25,
        -30,   5,  10,  15,  15,  10,   5, -30,
        -40, -20,   0,   5,   5,   0, -20, -40,
        -50, -40, -30, -25, -25, -30, -40, -50>>,
     bishop |->
      <<-20, -10, -10, -10, -10, -10, -10, -20,
        -10,   5,   0,   0,   0,   0,   5, -10,
        -10,  10,  10,  10,  10,  10,  10, -10,
        -10,   0,  10,  15,  15,  10,   0, -10,
        -10,   5,   5,  15,  15,   5,   5, -10,
        -10,   0,   5,  10,  10,   5,   0, -10,
        -10,   5,   0,   0,   0,   0,   5, -10,
        -20, -10, -10, -10, -10, -10, -10, -20>>,
     rook |->
      <<  0,   0,   0,   5,   5,   0,   0,   0,
         20,  20,  20,  20,  20,  20,  20,  20,
         -5,   0,   0,   0,   0,   0,   0,  -5,
         -5,   0,   0,   0,   0,   0,   0,  -5,
         -5,   0,   0,   0,   0,   0,   0,  -5,
         -5,   0,   0,   0,   0,   0,   0,  -5,
         -5,   0,   0,   0,   0,   0,   0,  -5,
          0,   0,   0,   0,   0,   0,   0,   0>>,
     kingMiddle |->
      << 20,  30,  10,   0,   0,  10,  30,  20,
        -10, -20, -20, -20, -20, -20, -20, -10,
        -20, -30, -30, -40, -40, -30, -30, -20,
        -30, -40, -40, -50, -50, -40, -40, -30,
        -30, -40, -40, -50, -50, -40, -40, -30,
        -30, -40, -40, -50, -50, -40, -40, -30,
        -30, -40, -40, -50, -50, -40, -40, -30,
        -30, -40, -40, -50, -50, -40, -40, -30>> ]

\* AI::evaluate, lines 744-804: the piece-square sum of the pieces bb of colour
\* c; a black piece reads the table at sq ^ 56
PstSum(tbl, bb, c) ==
    SumSeq([i \in 1..Len(BitsOf(bb)) |->
              tbl[(IF c = WHITE THEN BitsOf(bb)[i] ELSE FlipRank(BitsOf(bb)[i])) + 1]])

\* AI::evaluate, lines 744-804
Positional(p, c) ==
    PstSum(PST.pawn, pieces(p, c, PAWN), c) +
    PstSum(PST.knight, pieces(p, c, KNIGHT), c) +
    PstSum(PST.bishop, pieces(p, c, BISHOP), c) +
    PstSum(PST.rook, pieces(p, c, ROOK), c) +
    PstSum(PST.kingMiddle, pieces(p, c, KING), c)

\* AI::evaluatePawnStructure, the body of the loop for the pawn on sq
PawnStructureAt(p, c, sq) ==
    LET file == fileOf(sq)
        rank == rankOf(sq)
        own == pieces(p, c, PAWN)
        enemyPawns == pieces(p, Flip(c), PAWN)
        adjacentFiles == {s \in Squares : Abs(fileOf(s) - file) = 1}
        passedMask ==
            {s \in Squares : /\ Abs(fileOf(s) - file) <= 1
                             /\ IF c = WHITE THEN rankOf(s) > rank
                                ELSE rankOf(s) < rank}
        supportMask ==
            {s \in adjacentFiles : IF c = WHITE THEN rankOf(s) <= rank
                                   ELSE rankOf(s) >= rank}
        hasSupport == own \cap supportMask # {}
    IN  (IF popCount(own \cap fileBB(file)) > 1 THEN -10 ELSE 0) +
        (IF own \cap adjacentFiles = {} THEN -15 ELSE 0) +
        (IF enemyPawns \cap passedMask = {}
         THEN 20 + (IF c = WHITE THEN (rank - 1) * 10 ELSE (6 - rank) * 10)
         ELSE IF ~hasSupport /\ ~(own \cap adjacentFiles # {}) THEN -12 ELSE 0) +
        (IF pawnAttacks(Flip(c), sq) \cap own # {} THEN 5 ELSE 0)

\* AI::evaluatePawnStructure
evaluatePawnStructure(p, c) ==
    SumSeq([i \in 1..Len(BitsOf(pieces(p, c, PAWN))) |->
              PawnStructureAt(p, c, BitsOf(pieces(p, c, PAWN))[i])])

\* AI::evaluateKingSafety
evaluateKingSafety(p, c) ==
    LET kingFile == fileOf(lsb(pieces(p, c, KING)))
        files == Max(0, kingFile - 1)..Min(7, kingFile + 1)
        pawns == pieces(p, c, PAWN)
        near == IF c = WHITE THEN 1 ELSE 6
        far == IF c = WHITE THEN 2 ELSE 5
    IN  10 * Cardinality({f \in files : makeSquare(f, near) \in pawns}) +
        5 * Cardinality({f \in files : makeSquare(f, far) \in pawns}) -
        20 * Cardinality({f \in files :
                            (pieces(p, WHITE, PAWN) \cup pieces(p, BLACK, PAWN))
                                \cap fileBB(f) = {}})

\* AI::evaluateMobility, one of its four loops
MobilityOf(p, c, pt) ==
    SumSeq([i \in 1..Len(BitsOf(pieces(p, c, pt))) |->
              popCount(PieceAttacks(pt, BitsOf(pieces(p, c, pt))[i], occupied(p))
                       \ p.byColor[c])])

\* AI::evaluateMobility
evaluateMobility(p, c) ==
    (MobilityOf(p, c, KNIGHT) + MobilityOf(p, c, BISHOP) +
     MobilityOf(p, c, ROOK) + MobilityOf(p, c, QUEEN)) * 2

\* AI::evaluateDevelopment, the number of minor pieces that have left their
\* starting squares
MinorsDeveloped(p, c) ==
    LET At(sq) == p.board[IF c = WHITE THEN sq ELSE FlipRank(sq)]
    IN  Cardinality({sq \in {B1, G1} : At(sq) # makePiece(c, KNIGHT)}) +
        Cardinality({sq \in {C1, F1} : At(sq) # makePiece(c, BISHOP)})

\* BB::lsb(pos.pieces(c, QUEEN)) in AI::evaluateDevelopment.  BB::lsb is
\* __builtin_ctzll, whose result is undefined for a side without a queen;
\* ctz0 is what the build yields then.
QueenSquare(p, c, ctz0) ==
    IF pieces(p, c, QUEEN) # {} THEN lsb(pieces(p, c, QUEEN)) ELSE ctz0

\* The values of __builtin_ctzll(0) that AI::evaluate can tell apart on p: the
\* bit count 64 (= NO_SQUARE), or whatever the register held, which stands for
\* a square.  The value is read only to decide the early-queen penalty of a
\* side with fewer than two developed minor pieces.
CtzOutcomes(p) ==
    IF \E c \in {WHITE, BLACK} : pieces(p, c, QUEEN) = {} /\ MinorsDeveloped(p, c) < 2
    THEN {A1, NO_SQUARE}
    ELSE {NO_SQUARE}

\* AI::evaluateDevelopment, Black's branch being White's with the ranks
\* flipped; queenSq is the value BB::lsb returned for the queens
evaluateDevelopment(p, c, queenSq) ==
    LET At(sq) == p.board[IF c = WHITE THEN sq ELSE FlipRank(sq)]
        knight == makePiece(c, KNIGHT)
        bishop == makePiece(c, BISHOP)
        rook == makePiece(c, ROOK)
        kingSq == lsb(pieces(p, c, KING))
        Home(sq) == IF c = WHITE THEN sq ELSE FlipRank(sq)
    IN  (IF At(B1) = knight THEN -20 ELSE 0) +
        (IF At(G1) = knight THEN -20 ELSE 0) +
        (IF At(C1) = bishop THEN -15 ELSE 0) +
        (IF At(F1) = bishop THEN -15 ELSE 0) +
        (IF At(A1) = rook THEN -5 ELSE 0) +
        (IF At(H1) = rook THEN -5 ELSE 0) +
        (IF queenSq # Home(D1) /\ queenSq # NO_SQUARE /\ MinorsDeveloped(p, c) < 2
         THEN -30 ELSE 0) +
        (IF kingSq = Home(G1) \/ kingSq = Home(C1) THEN 40 ELSE 0) +
        (IF At(E4) = makePiece(c, PAWN) THEN 50 ELSE 0) +
        (IF At(D4) = makePiece(c, PAWN) THEN 50 ELSE 0)

\* AI::evaluateRooks, the body of the loop for the rook on sq
RookAt(p, c, sq) ==
    LET hasOurPawns == pieces(p, c, PAWN) \cap fileBB(fileOf(sq)) # {}
        hasEnemyPawns == pieces(p, Flip(c), PAWN) \cap fileBB(fileOf(sq)) # {}
    IN  (IF ~hasOurPawns /\ ~hasEnemyPawns THEN 25
         ELSE IF ~hasOurPawns /\ hasEnemyPawns THEN 15 ELSE 0) +
        (IF (c = WHITE /\ rankOf(sq) = RANK_7) \/ (c = BLACK /\ rankOf(sq) = RANK_2)
         THEN 20 ELSE 0)

\* AI::evaluateRooks
evaluateRooks(p, c) ==
    SumSeq([i \in 1..Len(BitsOf(pieces(p, c, ROOK))) |->
              RookAt(p, c, BitsOf(pieces(p, c, ROOK))[i])])

\* AI::evaluateBishops
evaluateBishops(p, c) == IF popCount(pieces(p, c, BISHOP)) >= 2 THEN 30 ELSE 0

\* AI::evaluateKnights, the body of the loop for the knight on sq
KnightAt(p, c, sq) ==
    LET file == fileOf(sq)
        rank == rankOf(sq)
        isOutpostRank == IF c = WHITE THEN rank \in {3, 4, 5} ELSE rank \in {4, 3, 2}
        defendedByPawn == pawnAttacks(Flip(c), sq) \cap pieces(p, c, PAWN) # {}
        canBeAttacked ==
            \E s \in pieces(p, Flip(c), PAWN) :
                /\ Abs(fileOf(s) - file) = 1
                /\ IF c = WHITE THEN rankOf(s) >= rank ELSE rankOf(s) <= rank
    IN  IF isOutpostRank /\ defendedByPawn /\ ~canBeAttacked
        THEN 25 + (IF file >= 2 /\ file <= 5 THEN 10 ELSE 0)
        ELSE 0

\* AI::evaluateKnights
evaluateKnights(p, c) ==
    SumSeq([i \in 1..Len(BitsOf(pieces(p, c, KNIGHT))) |->
              KnightAt(p, c, BitsOf(pieces(p, c, KNIGHT))[i])])

\* AI::getGamePhase
getGamePhase(p) ==
    LET Count(pt) == popCount(pieces(p, WHITE, pt)) + popCount(pieces(p, BLACK, pt))
        phase == Count(KNIGHT) + Count(BISHOP) + Count(ROOK) * 2 + Count(QUEEN) * 4
    IN  Min(256, CDiv(phase * 256 + CDiv(24, 2), 24))

\* AI::evaluate, lines 806-838, from the terms of White minus those of Black
Tapered(material, positional, pawnStructure, kingSafety, mobility, development,
        rookScore, bishopScore, knightScore, phase, stm) ==
    LET openingScore == material + positional + mobility + kingSafety +
                        pawnStructure + development + rookScore + bishopScore +
                        knightScore
        endgameScore == material + CDiv(positional, 2) + CDiv(mobility, 2) +
                        CDiv(kingSafety, 4) + CDiv(pawnStructure * 3, 2) +
                        CDiv(rookScore * 3, 2) + bishopScore + knightScore
        score == CDiv(openingScore * phase + endgameScore * (256 - phase), 256)
    IN  IF stm = WHITE THEN score ELSE -score

\* AI::evaluate, with ctz0 the value of __builtin_ctzll(0)
evaluate(p, ctz0) ==
    Tapered(materialCount(p, WHITE) - materialCount(p, BLACK),
            Positional(p, WHITE) - Positional(p, BLACK),
            evaluatePawnStructure(p, WHITE) - evaluatePawnStructure(p, BLACK),
            evaluateKingSafety(p, WHITE) - evaluateKingSafety(p, BLACK),
            evaluateMobility(p, WHITE) - evaluateMobility(p, BLACK),
            evaluateDevelopment(p, WHITE, QueenSquare(p, WHITE, ctz0)) -
                evaluateDevelopment(p, BLACK, QueenSquare(p, BLACK, ctz0)),
            evaluateRooks(p, WHITE) - evaluateRooks(p, BLACK),
            evaluateBishops(p, WHITE) - evaluateBishops(p, BLACK),
            evaluateKnights(p, WHITE) - evaluateKnights(p, BLACK),
            getGamePhase(p), p.stm)


----------------------------------------------------------------------------
(* Position::attacksTo and Position::see *)

\* a ^ b on two bitboards
BBXor(a, b) == (a \ b) \cup (b \ a)

\* pieces(WHITE, pt) | pieces(BLACK, pt)
BothColours(p, pt) == pieces(p, WHITE, pt) \cup pieces(p, BLACK, pt)

\* Position::attacksTo
attacksTo(p, sq) ==
    (pawnAttacks(WHITE, sq) \cap pieces(p, BLACK, PAWN)) \cup
    (pawnAttacks(BLACK, sq) \cap pieces(p, WHITE, PAWN)) \cup
    (knightAttacks(sq) \cap BothColours(p, KNIGHT)) \cup
    (kingAttacks(sq) \cap BothColours(p, KING)) \cup
    (bishopAttacks(sq, occupied(p)) \cap
        (BothColours(p, BISHOP) \cup BothColours(p, QUEEN))) \cup
    (rookAttacks(sq, occupied(p)) \cap
        (BothColours(p, ROOK) \cup BothColours(p, QUEEN)))

\* Position::see, pieceValues
pieceValues == <<100, 320, 330, 500, 900, 20000>>

\* Position::see, lines 661-668: the type of the least valuable piece of
\* `side` among the attackers, NO_PIECE_TYPE when there is none
LeastAttacker(p, attackers, side) ==
    IF \E pt \in PAWN..KING : attackers \cap pieces(p, side, pt) # {}
    THEN CHOOSE pt \in PAWN..KING :
            /\ attackers \cap pieces(p, side, pt) # {}
            /\ \A qt \in PAWN..(pt - 1) : attackers \cap pieces(p, side, qt) = {}
    ELSE NO_PIECE_TYPE

\* Position::see, lines 674-676: the minimax over gain[0..depth], where depth
\* is the index of the last entry; the value returned is gain[0]
RECURSIVE SeeMinimax(_, _)
SeeMinimax(gain, depth) ==
    IF depth - 1 = 0 THEN gain[1]
    ELSE SeeMinimax([gain EXCEPT ![depth - 1] = -Max(-gain[depth - 1], gain[depth])],
                    depth - 1)

\* Position::see, lines 628-672: one pass of the do-while loop; gain holds
\* gain[0..depth-1] of the code in its places 1..depth
RECURSIVE SeeLoop(_, _, _, _, _, _, _, _)
SeeLoop(p, to, gain, attackers, occ, fromSet, side, attackerType) ==
    LET depth == Len(gain)
        gain1 == Append(gain, pieceValues[attackerType + 1] - gain[depth])
        attackers1 == BBXor(attackers, fromSet)
        occ1 == BBXor(occ, fromSet)
        mayXray == BothColours(p, PAWN) \cup BothColours(p, BISHOP) \cup
                   BothColours(p, ROOK) \cup BothColours(p, QUEEN)
        attackers2 ==
            IF fromSet \cap mayXray # {}
            THEN attackers1 \cup
                 (bishopAttacks(to, occ1) \cap
                    (BothColours(p, BISHOP) \cup BothColours(p, QUEEN)) \cap occ1) \cup
                 (rookAttacks(to, occ1) \cap
                    (BothColours(p, ROOK) \cup BothColours(p, QUEEN)) \cap occ1)
            ELSE attackers1
        side1 == Flip(side)
        attackers3 == attackers2 \cap occ1
        pt == LeastAttacker(p, attackers3, side1)
    IN  IF Max(-gain[depth], gain1[depth + 1]) < 0 THEN SeeMinimax(gain1, depth)
        ELSE IF pt = NO_PIECE_TYPE THEN SeeMinimax(gain1, depth)
        ELSE SeeLoop(p, to, gain1, attackers3, occ1,
                     {lsb(attackers3 \cap pieces(p, side1, pt))}, side1, pt)

\* an exchange evaluation that always counts the capturing piece as lost
SeeAttackerLost(p, move) ==
    LET attacker == p.board[fromSquare(move)]
        captured == IF moveType(move) = EN_PASSANT
                    THEN makePiece(Flip(colorOf(attacker)), PAWN)
                    ELSE p.board[toSquare(move)]
    IN  IF captured = NO_PIECE /\ moveType(move) # EN_PASSANT THEN 0
        ELSE pieceValues[typeOf(captured) + 1] - pieceValues[typeOf(attacker) + 1]

\* Position::see
see(p, move) ==
    LET from == fromSquare(move)
        to == toSquare(move)
        attacker == p.board[from]
        captured == IF moveType(move) = EN_PASSANT
                    THEN makePiece(Flip(colorOf(attacker)), PAWN)
                    ELSE p.board[to]
    IN  IF captured = NO_PIECE /\ moveType(move) # EN_PASSANT THEN 0
        ELSE SeeLoop(p, to, <<pieceValues[typeOf(captured) + 1]>>,
                     attacksTo(p, to) \cap occupied(p), occupied(p), {from},
                     colorOf(attacker), typeOf(attacker))


----------------------------------------------------------------------------
(* std::sort of libstdc++ (bits/stl_algo.h, bits/stl_heap.h) on a sequence of
   <<move, score>> pairs with the comparator of AI::orderMoves: a comes before
   b when score(a) > score(b).  Places are counted from 1 and a range
   [first, last) excludes last. *)

Before(a, b) == a[2] > b[2]

Swap(s, i, j) == [s EXCEPT ![i] = s[j], ![j] = s[i]]

\* std::__insertion_sort and std::__unguarded_insertion_sort: each element
\* is moved back past the elements it comes before, so equal elements keep
\* their order
InsertionSort(s) ==
    LET n == Len(s)
        Rank(i) == 1 + Cardinality({j \in 1..n :
                        Before(s[j], s[i]) \/ (~Before(s[i], s[j]) /\ j < i)})
    IN  [k \in 1..n |-> s[CHOOSE i \in 1..n : Rank(i) = k]]

\* std::__push_heap on the heap that starts at place first
RECURSIVE PushHeap(_, _, _, _, _)
PushHeap(s, first, holeIndex, topIndex, value) ==
    LET parent == (holeIndex - 1) \div 2
    IN  IF holeIndex > topIndex /\ Before(s[first + parent], value)
        THEN PushHeap([s EXCEPT ![first + holeIndex] = s[first + parent]],
                      first, parent, topIndex, value)
        ELSE [s EXCEPT ![first + holeIndex] = value]

\* std::__adjust_heap, the loop that moves the hole down
RECURSIVE SiftDown(_, _, _, _, _)
SiftDown(s, first, holeIndex, secondChild, len) ==
    IF secondChild < (len - 1) \div 2
    THEN LET right == 2 * (secondChild + 1)
             child == IF Before(s[first + right], s[first + right - 1])
                      THEN right - 1 ELSE right
         IN  SiftDown([s EXCEPT ![first + holeIndex] = s[first + child]],
                      first, child, child, len)
    ELSE [s |-> s, holeIndex |-> holeIndex, secondChild |-> secondChild]

\* std::__adjust_heap, after the loop
AdjustTail(d, first, topIndex, len, value) ==
    IF len % 2 = 0 /\ d.secondChild = (len - 2) \div 2
    THEN PushHeap([d.s EXCEPT ![first + d.holeIndex] = d.s[first + 2 * (d.secondChild + 1) - 1]],
                  first, 2 * (d.secondChild + 1) - 1, topIndex, value)
    ELSE PushHeap(d.s, first, d.holeIndex, topIndex, value)

\* std::__adjust_heap
AdjustHeap(s, first, holeIndex, len, value) ==
    AdjustTail(SiftDown(s, first, holeIndex, holeIndex, len), first, holeIndex, len, value)

\* std::__make_heap on [first, first + len), a range of s (the test of the
\* range has s computed before the next turn of the loop, here and below)
RECURSIVE MakeHeap(_, _, _, _)
MakeHeap(s, first, len, parent) ==
    IF parent = 0 \/ first + len - 1 > Len(s) THEN AdjustHeap(s, first, 0, len, s[first])
    ELSE MakeHeap(AdjustHeap(s, first, parent, len, s[first + parent]), first, len, parent - 1)

\* std::__sort_heap on [first, last): std::__pop_heap moves the top to last - 1
RECURSIVE SortHeap(_, _, _)
SortHeap(s, first, last) ==
    IF last - first > 1 /\ last - 1 <= Len(s)
    THEN SortHeap(AdjustHeap([s EXCEPT ![last - 1] = s[first]], first, 0,
                             last - 1 - first, s[last - 1]),
                  first, last - 1)
    ELSE s

\* std::__partial_sort(first, last, last): the fallback of the introsort loop
HeapSort(s, first, last) ==
    IF last - first < 2 THEN s
    ELSE SortHeap(MakeHeap(s, first, last - first, (last - first - 2) \div 2), first, last)

\* std::__move_median_to_first
MoveMedianToFirst(s, result, a, b, c) ==
    IF Before(s[a], s[b])
    THEN IF Before(s[b], s[c]) THEN Swap(s, result, b)
         ELSE IF Before(s[a], s[c]) THEN Swap(s, result, c)
         ELSE Swap(s, result, a)
    ELSE IF Before(s[a], s[c]) THEN Swap(s, result, a)
         ELSE IF Before(s[b], s[c]) THEN Swap(s, result, c)
         ELSE Swap(s, result, b)

RECURSIVE ScanUp(_, _, _)
ScanUp(s, first, pivot) ==
    IF Before(s[first], s[pivot]) THEN ScanUp(s, first + 1, pivot) ELSE first

RECURSIVE ScanDown(_, _, _)
ScanDown(s, last, pivot) ==
    IF Before(s[pivot], s[last]) THEN ScanDown(s, last - 1, pivot) ELSE last

\* std::__unguarded_partition: [s |-> the sequence, cut |-> the place returned]
RECURSIVE UnguardedPartition(_, _, _, _)
UnguardedPartition(s, first, last, pivot) ==
    LET f == ScanUp(s, first, pivot)
        l == ScanDown(s, last - 1, pivot)
    IN  IF ~(f < l) THEN [s |-> s, cut |-> f]
        ELSE UnguardedPartition(Swap(s, f, l), f + 1, l, pivot)

\* std::__lg
RECURSIVE Lg(_)
Lg(n) == IF n <= 1 THEN 0 ELSE 1 + Lg(n \div 2)

RECURSIVE IntrosortLoop(_, _, _, _)
RECURSIVE IntrosortSplit(_, _, _, _)

\* std::__introsort_loop
IntrosortLoop(s, first, last, depthLimit) ==
    IF last - first <= 16 THEN s
    ELSE IF depthLimit = 0 THEN HeapSort(s, first, last)
    ELSE IntrosortSplit(
            UnguardedPartition(
                MoveMedianToFirst(s, first, first + 1, first + (last - first) \div 2, last - 1),
                first + 1, last, first),
            first, last, depthLimit - 1)

\* the loop's body after std::__unguarded_partition_pivot has returned p.cut
IntrosortSplit(p, first, last, depthLimit) ==
    IntrosortLoop(IntrosortLoop(p.s, p.cut, last, depthLimit), first, p.cut, depthLimit)

\* std::sort
StdSort(s) ==
    IF s = <<>> THEN s
    ELSE InsertionSort(IntrosortLoop(s, 1, Len(s) + 1, 2 * Lg(Len(s))))

----------------------------------------------------------------------------
(* AI.h / AI.cpp: the engine's tables.  A zero-initialised array is the
   function of its non-zero entries: Get reads 0 where nothing is stored. *)

Get(tbl, k) == IF k \in DOMAIN tbl THEN tbl[k] ELSE 0

Put(tbl, k, v) ==
    IF v = 0 THEN [x \in DOMAIN tbl \ {k} |-> tbl[x]]
    ELSE [x \in DOMAIN tbl \cup {k} |-> IF x = k THEN v ELSE tbl[x]]

\* enum TTFlag
EXACT == 0
LOWERBOUND == 1
UPPERBOUND == 2

INT_MAX == 2147483647
INT_MIN == -INT_MAX - 1

\* TTEntry{}: the value of a slot nothing was stored in
EmptyTTEntry == [key |-> {}, depth |-> 0, score |-> 0, flag |-> EXACT,
                 bestMove |-> 0, age |-> 0]

\* hash % TT_SIZE.  A hash is the set of the Zobrist keys XORed into it, and
\* the table has TT_SIZE = 5592405 slots: distinct hashes are taken to fall
\* into distinct slots.
TTIndex(hash) == hash

\* transpositionTable[ttIndex], a slot never written being TTEntry{}
TTProbe(ai, hash) ==
    IF TTIndex(hash) \in DOMAIN ai.transpositionTable
    THEN ai.transpositionTable[TTIndex(hash)] ELSE EmptyTTEntry

\* AI::AI
NewAI(depth) ==
    [depth |-> depth, nodesSearched |-> 0, ttHits |-> 0, timeLimit |-> 0,
     searchStartTime |-> 0, transpositionTable |-> <<>>, ttAge |-> 0,
     killerMoves |-> <<>>, historyTable |-> <<>>, pvTable |-> <<>>,
     pvLength |-> <<>>, countermoves |-> <<>>, openingBook |-> <<>>]

\* AI::shouldStop, with the reading of currentTimeMs() as a parameter
\* A negative timeLimit is cast to uint64_t, which makes it 2^64 - |timeLimit|:
\* no reading of the clock reaches it.
shouldStop(ai, clock) ==
    IF ai.timeLimit = 0 THEN FALSE
    ELSE IF ai.timeLimit < 0 THEN FALSE
    ELSE clock - ai.searchStartTime >= ai.timeLimit

\* AI::isKiller
isKiller(ai, move, ply) ==
    IF ply >= 64 THEN FALSE
    ELSE Get(ai.killerMoves, <<ply, 0>>) = move \/ Get(ai.killerMoves, <<ply, 1>>) = move

\* AI::storeKiller
storeKiller(ai, move, ply) ==
    IF ply >= 64 \/ Get(ai.killerMoves, <<ply, 0>>) = move THEN ai
    ELSE [ai EXCEPT !.killerMoves =
            Put(Put(ai.killerMoves, <<ply, 1>>, Get(ai.killerMoves, <<ply, 0>>)),
                <<ply, 0>>, move)]

\* AI::updateHistory
updateHistory(ai, move, depth) ==
    LET k == <<fromSquare(move), toSquare(move)>>
        bonus == depth * depth
        h == Get(ai.historyTable, k)
        h1 == h + (bonus - CDiv(h * Abs(bonus), 10000))
    IN  [ai EXCEPT !.historyTable =
            Put(ai.historyTable, k,
                IF h1 > 10000 THEN 10000 ELSE IF h1 < -10000 THEN -10000 ELSE h1)]

\* AI::getMoveScore
getMoveScore(p, ai, move, ply, ttMove) ==
    IF move = ttMove THEN 1000000
    ELSE
    LET from == fromSquare(move)
        to == toSquare(move)
        prevMove == Get(ai.pvTable, <<ply - 1, 0>>)
        countermove == Get(ai.countermoves, <<fromSquare(prevMove), toSquare(prevMove)>>)
        score ==
            IF p.board[to] # NO_PIECE \/ moveType(move) = EN_PASSANT
            THEN LET seeValue == see(p, move)
                 IN  IF seeValue > 0 THEN 20000 + seeValue
                     ELSE IF seeValue = 0 THEN 10000
                     ELSE 5000 + seeValue
            ELSE (IF ply > 0 /\ Get(ai.pvLength, ply - 1) > 0 /\ move = countermove
                  THEN 9500 ELSE 0)
                 + (IF isKiller(ai, move, ply) THEN 9000 ELSE 0)
                 + Get(ai.historyTable, <<from, to>>)
    IN  score + (IF moveType(move) = PROMOTION THEN 15000 ELSE 0)

\* AI::orderMoves
orderMoves(p, ai, moves, ply, ttMove) ==
    LET sorted == StdSort([i \in 1..Len(moves) |->
                            <<moves[i], getMoveScore(p, ai, moves[i], ply, ttMove)>>])
    IN  [i \in 1..Len(moves) |-> sorted[i][1]]

RECURSIVE CapturesLoop(_, _, _)
RECURSIVE CapturesPush(_, _, _, _)

\* MoveGen::generateCaptures, the loop from the i-th pseudo-legal move on
CapturesLoop(r, pseudoMoves, i) ==
    IF i > Len(pseudoMoves) THEN r
    ELSE IF r.pos.board[toSquare(pseudoMoves[i])] # NO_PIECE
            \/ moveType(pseudoMoves[i]) = EN_PASSANT
    THEN CapturesPush(r.moves, pseudoMoves, i, RunIsLegal(r.pos, pseudoMoves[i]))
    ELSE CapturesLoop(r, pseudoMoves, i + 1)

\* the body of the loop, after the call of isLegal
CapturesPush(moves, pseudoMoves, i, il) ==
    IF il.legal
    THEN CapturesLoop([moves |-> Append(moves, pseudoMoves[i]), pos |-> il.pos],
                      pseudoMoves, i + 1)
    ELSE CapturesLoop([moves |-> moves, pos |-> il.pos], pseudoMoves, i + 1)

\* MoveGen::generateCaptures: [moves |-> the list returned, pos |-> the
\* position left behind]
RunGenerateCaptures(p) ==
    CapturesLoop([moves |-> <<>>, pos |-> p], generatePseudoLegalMoves(p), 1)


----------------------------------------------------------------------------
(* AI.cpp: the search.  A call of AI::negamax or AI::quiescence is a frame of
   a stack.  Each operator below is the code that runs between two calls; it
   yields what the code leaves behind: the Position, the AI, the stack, and
   either the call made next or the value returned. *)

NoCall == [fn |-> "none", depth |-> 0, alpha |-> 0, beta |-> 0, ply |-> 0]

NoExit == [fn |-> "none", entry |-> ClearedPosition, exit |-> ClearedPosition]

\* the locals of a call that has just been entered; `entry` is the Position it
\* was given
NewFrame(fn, entry, depth, alpha, beta, ply) ==
    [fn |-> fn, stage |-> "enter", entry |-> entry, depth |-> depth,
     alpha |-> alpha, beta |-> beta, ply |-> ply, alphaOrig |-> alpha,
     hash |-> entry.positionHash, isPVNode |-> FALSE, futilityPrune |-> FALSE,
     moves |-> <<>>, moveNum |-> 0, maxScore |-> INT_MIN, bestMove |-> 0,
     newDepth |-> 0, reduction |-> 0, inCheck |-> FALSE, standPat |-> 0]

\* fn(pos, depth, alpha, beta, ply) is called (depth is qsDepth for quiescence,
\* which has no ply)
CallOf(pos, ai, stack, fn, depth, alpha, beta, ply) ==
    [pos |-> pos, ai |-> ai, stack |-> stack, pc |-> "call",
     call |-> [fn |-> fn, depth |-> depth, alpha |-> alpha, beta |-> beta, ply |-> ply],
     ret |-> 0, exit |-> NoExit]

\* the call with the locals f returns value
ReturnOf(pos, ai, rest, f, value) ==
    [pos |-> pos, ai |-> ai, stack |-> rest, pc |-> "ret", call |-> NoCall,
     ret |-> value, exit |-> [fn |-> f.fn, entry |-> f.entry, exit |-> pos]]

\* nodesSearched++
CountNode(ai) == [ai EXCEPT !.nodesSearched = @ + 1]

\* (beta - alpha) > 1 on two ints.  The difference of a window as wide as the
\* root's does not fit an int, which is undefined: the build either wraps it
\* around or compares the exact difference.
IsPVNode(alpha, beta, wraps) ==
    IF alpha < 0 /\ beta > INT_MAX + alpha THEN ~wraps
    ELSE IF alpha > 0 /\ beta < INT_MIN + alpha THEN wraps
    ELSE beta - alpha > 1

\* AI::negamax, lines 328-351
canDoNullMove(pos, depth, ply) ==
    LET us == pos.stm
        material == materialCount(pos, us)
        nonPawnPieces == popCount(pieces(pos, us, KNIGHT)) + popCount(pieces(pos, us, BISHOP)) +
                         popCount(pieces(pos, us, ROOK)) + popCount(pieces(pos, us, QUEEN))
    IN  /\ depth >= 3 /\ ~inCheck(pos) /\ ply > 0
        /\ ~(material <= 100 \/ nonPawnPieces = 0 \/ (nonPawnPieces = 1 /\ material < 500))

\* pos.pieceAt(toSquare(move)) != NO_PIECE || moveType(move) == EN_PASSANT
IsCapture(pos, move) ==
    pos.board[toSquare(move)] # NO_PIECE \/ moveType(move) = EN_PASSANT

\* a faulty store that overwrites the slot whatever it holds
NmStoreAlways(pos, ai, rest, f) ==
    ReturnOf(pos,
             [ai EXCEPT !.transpositionTable =
                 [x \in DOMAIN @ \cup {TTIndex(f.hash)} |->
                     IF x = TTIndex(f.hash)
                     THEN [key |-> f.hash, depth |-> f.depth, score |-> f.maxScore,
                           flag |-> IF f.maxScore <= f.alphaOrig THEN UPPERBOUND
                                    ELSE IF f.maxScore >= f.beta THEN LOWERBOUND ELSE EXACT,
                           bestMove |-> f.bestMove, age |-> ai.ttAge]
                     ELSE @[x]]],
             rest, f, f.maxScore)

\* AI::negamax, lines 561-586: the store into the transposition table and the
\* return of maxScore
NmStore(pos, ai, rest, f) ==
    LET slot == TTProbe(ai, f.hash)
        shouldReplace == slot.key = {} \/ slot.key = f.hash \/ slot.depth <= f.depth
                         \/ slot.age # ai.ttAge
        stored == [key |-> f.hash, depth |-> f.depth, score |-> f.maxScore,
                   flag |-> IF f.maxScore <= f.alphaOrig THEN UPPERBOUND
                            ELSE IF f.maxScore >= f.beta THEN LOWERBOUND ELSE EXACT,
                   bestMove |-> f.bestMove, age |-> ai.ttAge]
    IN  ReturnOf(pos,
                 IF shouldReplace
                 THEN [ai EXCEPT !.transpositionTable =
                         [x \in DOMAIN @ \cup {TTIndex(f.hash)} |->
                             IF x = TTIndex(f.hash) THEN stored ELSE @[x]]]
                 ELSE ai,
                 rest, f, f.maxScore)

\* AI::negamax, lines 532-537: the update of the principal variation
UpdatePV(ai, ply, move) ==
    LET n == Get(ai.pvLength, ply + 1)
        Entry(k) == IF k = <<ply, 0>> THEN move
                    ELSE IF k[1] = ply /\ k[2] <= n THEN Get(ai.pvTable, <<ply + 1, k[2] - 1>>)
                    ELSE ai.pvTable[k]
        keys == DOMAIN ai.pvTable \cup {<<ply, i>> : i \in 0..n}
    IN  [ai EXCEPT !.pvTable = [k \in {x \in keys : Entry(x) # 0} |-> Entry(k)],
                   !.pvLength = Put(@, ply, n + 1)]

\* AI::negamax, lines 542-557: the beta cutoff by `move`
Cutoff(pos, ai, move, depth, ply) ==
    IF IsCapture(pos, move) THEN ai
    ELSE LET prevMove == Get(ai.pvTable, <<ply - 1, 0>>)
             a1 == updateHistory(storeKiller(ai, move, ply), move, depth)
         IN  IF ply > 0 /\ Get(ai.pvLength, ply - 1) > 0
             THEN [a1 EXCEPT !.countermoves =
                     Put(@, <<fromSquare(prevMove), toSquare(prevMove)>>, move)]
             ELSE a1

RECURSIVE NmLoop(_, _, _, _)

\* AI::negamax, lines 526-558: `score` is the score of the move just searched
\* and pos1 the Position after its unmakeMove
NmScored(pos1, ai, rest, f, move, score) ==
    IF Max(f.alpha, score) >= f.beta
    THEN NmStore(pos1, Cutoff(pos1, ai, move, f.depth, f.ply), rest,
                 [f EXCEPT !.alpha = Max(@, score)])
    ELSE NmLoop(pos1, ai, rest, [f EXCEPT !.alpha = Max(@, score), !.moveNum = @ + 1])

\* AI::negamax, lines 526-538: `score` is the score of the move at moveNum,
\* pos the Position before its unmakeMove
NmScore(pos, ai, rest, f, score) ==
    IF score > f.maxScore
    THEN NmScored(unmakeMove(pos), UpdatePV(ai, f.ply, f.moves[f.moveNum + 1]), rest,
                  [f EXCEPT !.maxScore = score, !.bestMove = f.moves[f.moveNum + 1]],
                  f.moves[f.moveNum + 1], score)
    ELSE NmScored(unmakeMove(pos), ai, rest, f, f.moves[f.moveNum + 1], score)

\* AI::negamax, lines 475-510: the first search of `move`, pos1 being the
\* Position after its makeMove
NmSearchMove(pos1, ai, rest, f, move, isCapture) ==
    LET givesCheck == inCheck(pos1)
        newDepth == f.depth - 1 + (IF givesCheck THEN 1 ELSE 0)
        reduction ==
            IF f.depth >= 3 /\ f.moveNum >= 3 /\ ~isCapture /\ ~givesCheck
               /\ moveType(move) # PROMOTION /\ ~isKiller(ai, move, f.ply)
            THEN Min(1 + (IF f.depth >= 6 THEN 1 ELSE 0) + (IF f.moveNum >= 6 THEN 1 ELSE 0)
                       + (IF f.depth >= 8 /\ f.moveNum >= 10 THEN 1 ELSE 0),
                     newDepth)
            ELSE 0
    IN  IF f.moveNum = 0
        THEN CallOf(pos1, ai, Append(rest, [f EXCEPT !.stage = "first", !.newDepth = newDepth]),
                    "negamax", newDepth, -f.beta, -f.alpha, f.ply + 1)
        ELSE CallOf(pos1, ai,
                    Append(rest, [f EXCEPT !.stage = "nullWindow", !.newDepth = newDepth,
                                           !.reduction = reduction]),
                    "negamax", newDepth - reduction, -f.alpha - 1, -f.alpha, f.ply + 1)

\* AI::negamax, lines 451-472: the head of the loop over the moves
NmLoop(pos, ai, rest, f) ==
    IF f.moveNum >= Len(f.moves) THEN NmStore(pos, ai, rest, f)
    ELSE LET move == f.moves[f.moveNum + 1]
             quiet == ~IsCapture(pos, move) /\ moveType(move) # PROMOTION
         IN  IF f.futilityPrune /\ f.moveNum > 0 /\ quiet
             THEN NmLoop(pos, ai, rest, [f EXCEPT !.moveNum = @ + 1])
             ELSE IF f.depth <= 3 /\ f.moveNum >= 3 + f.depth * f.depth /\ quiet
                     /\ ~isKiller(ai, move, f.ply)
             THEN NmLoop(pos, ai, rest, [f EXCEPT !.moveNum = @ + 1])
             ELSE NmSearchMove(makeMove(pos, move), ai, rest, f, move, IsCapture(pos, move))

\* AI::negamax, lines 447-451: the loop is entered with the ordered moves
NmBegin(pos, ai, rest, f, moves) ==
    NmLoop(pos, [ai EXCEPT !.pvLength = Put(@, f.ply, 0)], rest,
           [f EXCEPT !.moves = moves, !.maxScore = INT_MIN, !.bestMove = moves[1],
                     !.moveNum = 0])

\* AI::negamax, line 445
NmOrder(pos, ai, rest, f, ttMove) ==
    NmBegin(pos, ai, rest, f, orderMoves(pos, ai, f.moves, f.ply, ttMove))

\* AI::negamax, lines 430-443: after the internal iterative deepening
NmAfterIID(pos, ai, rest, f) ==
    LET slot == TTProbe(ai, f.hash)
    IN  NmOrder(pos, ai, rest, f,
                IF slot.key = f.hash /\ slot.bestMove # 0
                   /\ \E i \in 1..Len(f.moves) : f.moves[i] = slot.bestMove
                THEN slot.bestMove ELSE 0)

\* a faulty negamax that scores every mate alike, at whatever ply it stands
NmAfterMovesPlyForgotten(r, ai, rest, f) ==
    LET slot == TTProbe(ai, f.hash)
        ttMove == IF slot.key = f.hash THEN slot.bestMove ELSE 0
    IN  IF r.moves = <<>>
        THEN ReturnOf(r.pos, ai, rest, f, IF inCheck(r.pos) THEN -10000 ELSE 0)
        ELSE IF ttMove = 0 /\ f.isPVNode /\ f.depth >= 4
        THEN CallOf(r.pos, ai, Append(rest, [f EXCEPT !.stage = "iid", !.moves = r.moves]),
                    "negamax", f.depth - 2, f.alpha, f.beta, f.ply)
        ELSE NmOrder(r.pos, ai, rest, [f EXCEPT !.moves = r.moves], ttMove)

\* AI::negamax, lines 406-427: r is what generateLegalMoves returned and left
NmAfterMoves(r, ai, rest, f) ==
    LET slot == TTProbe(ai, f.hash)
        ttMove == IF slot.key = f.hash THEN slot.bestMove ELSE 0
    IN  IF r.moves = <<>>
        THEN ReturnOf(r.pos, ai, rest, f, IF inCheck(r.pos) THEN -10000 + f.ply ELSE 0)
        ELSE IF ttMove = 0 /\ f.isPVNode /\ f.depth >= 4
        THEN CallOf(r.pos, ai, Append(rest, [f EXCEPT !.stage = "iid", !.moves = r.moves]),
                    "negamax", f.depth - 2, f.alpha, f.beta, f.ply)
        ELSE NmOrder(r.pos, ai, rest, [f EXCEPT !.moves = r.moves], ttMove)

\* AI::negamax, lines 393-403: eval is the value of evaluate(pos)
NmAfterRazor(pos, ai, rest, f, eval) ==
    NmAfterMoves(RunGenerateLegalMoves(pos), ai, rest,
                 [f EXCEPT !.futilityPrune =
                     f.depth <= 3 /\ ~inCheck(pos) /\ eval + 100 + 200 * f.depth <= f.alpha])

\* AI::negamax, lines 365-388: eval is the value of evaluate(pos)
NmAfterNull(pos, ai, rest, f, eval, isPVNode) ==
    IF f.depth <= 6 /\ ~isPVNode /\ ~inCheck(pos) /\ eval - 100 * f.depth >= f.beta
    THEN ReturnOf(pos, ai, rest, f, eval)
    ELSE IF f.depth <= 3 /\ ~isPVNode /\ ~inCheck(pos) /\ eval + 300 + 150 * f.depth < f.alpha
    THEN CallOf(pos, ai, Append(rest, [f EXCEPT !.stage = "razor", !.isPVNode = isPVNode]),
                "quiescence", 0, f.alpha, f.beta, 0)
    ELSE NmAfterRazor(pos, ai, rest, [f EXCEPT !.isPVNode = isPVNode], eval)

\* AI::negamax, lines 297-356, after the node is counted and the clock has
\* not stopped the search: f holds the arguments, slot the table's entry
NmProbed(pos, ai, rest, f, slot, ctz0, wraps) ==
    LET hit == slot.key = f.hash /\ slot.depth >= f.depth
        alpha == IF hit /\ slot.flag = LOWERBOUND THEN Max(f.alpha, slot.score) ELSE f.alpha
        beta == IF hit /\ slot.flag = UPPERBOUND THEN Min(f.beta, slot.score) ELSE f.beta
        ai1 == IF hit THEN [ai EXCEPT !.ttHits = @ + 1] ELSE ai
        f1 == [f EXCEPT !.alpha = alpha, !.beta = beta]
    IN  IF hit /\ (slot.flag = EXACT \/ alpha >= beta)
        THEN ReturnOf(pos, ai1, rest, f, slot.score)
        ELSE IF f.depth = 0
        THEN CallOf(pos, [ai1 EXCEPT !.pvLength = Put(@, f.ply, 0)],
                    Append(rest, [f1 EXCEPT !.stage = "leaf"]),
                    "quiescence", 0, alpha, beta, 0)
        ELSE IF canDoNullMove(pos, f.depth, f.ply)
        THEN CallOf(makeNullMove(pos), ai1, Append(rest, [f1 EXCEPT !.stage = "null"]),
                    "negamax", Max(0, f.depth - 1 - 3), -beta, -beta + 1, f.ply + 1)
        ELSE NmAfterNull(pos, ai1, rest, f1, evaluate(pos, ctz0),
                         IsPVNode(alpha, beta, wraps))

\* AI::negamax from its first line to its first call or return; c holds the
\* arguments, timeUp is the value of shouldStop() where it is read
NmEnter(pos, ai, rest, c, timeUp, ctz0, wraps) ==
    IF timeUp
    THEN ReturnOf(pos, ai, rest, NewFrame("negamax", pos, c.depth, c.alpha, c.beta, c.ply), 0)
    ELSE NmProbed(pos, ai, rest, NewFrame("negamax", pos, c.depth, c.alpha, c.beta, c.ply),
                  TTProbe(ai, pos.positionHash), ctz0, wraps)

\* AI::negamax, lines 357-362: after the null move, pos1 being the Position
\* after unmakeNullMove
NmNullReturned(pos1, ai, rest, f, score, ctz0, wraps) ==
    IF score >= f.beta THEN ReturnOf(pos1, ai, rest, f, f.beta)
    ELSE NmAfterNull(pos1, ai, rest, f, evaluate(pos1, ctz0), IsPVNode(f.alpha, f.beta, wraps))

\* AI::negamax, lines 513-522: the re-searches of principal variation search
NmResearch(pos, ai, rest, f, stage, alpha) ==
    CallOf(pos, ai, Append(rest, [f EXCEPT !.stage = stage]),
           "negamax", f.newDepth, alpha, -f.alpha, f.ply + 1)

\* AI::negamax from the return of the call it made to its next call or its
\* return; f holds its locals and v is the value the call returned
NmReturn(pos, ai, rest, f, v, ctz0, wraps) ==
    CASE f.stage = "leaf" -> ReturnOf(pos, ai, rest, f, v)
      [] f.stage = "null" -> NmNullReturned(unmakeNullMove(pos), ai, rest, f, -v, ctz0, wraps)
      [] f.stage = "razor" ->
            IF v < f.alpha THEN ReturnOf(pos, ai, rest, f, v)
            ELSE NmAfterRazor(pos, ai, rest, f, evaluate(pos, ctz0))
      [] f.stage = "iid" -> NmAfterIID(pos, ai, rest, f)
      [] f.stage = "first" -> NmScore(pos, ai, rest, f, -v)
      [] f.stage = "nullWindow" ->
            IF -v > f.alpha /\ -v < f.beta
            THEN IF f.reduction > 0
                 THEN NmResearch(pos, ai, rest, f, "fullDepth", -f.alpha - 1)
                 ELSE NmResearch(pos, ai, rest, f, "fullWindow", -f.beta)
            ELSE NmScore(pos, ai, rest, f, -v)
      [] f.stage = "fullDepth" ->
            IF -v > f.alpha /\ -v < f.beta
            THEN NmResearch(pos, ai, rest, f, "fullWindow", -f.beta)
            ELSE NmScore(pos, ai, rest, f, -v)
      [] f.stage = "fullWindow" -> NmScore(pos, ai, rest, f, -v)

RECURSIVE QsLoop(_, _, _, _)

\* AI::quiescence, lines 648-678: the head of the loop over the captures
QsLoop(pos, ai, rest, f) ==
    IF f.moveNum >= Len(f.moves) THEN ReturnOf(pos, ai, rest, f, f.alpha)
    ELSE LET move == f.moves[f.moveNum + 1]
             captured == pos.board[toSquare(move)]
         IN  IF see(pos, move) < 0
             THEN QsLoop(pos, ai, rest, [f EXCEPT !.moveNum = @ + 1])
             ELSE IF captured # NO_PIECE
                     /\ f.standPat + pieceValues[typeOf(captured) + 1] + 200 < f.alpha
             THEN QsLoop(pos, ai, rest, [f EXCEPT !.moveNum = @ + 1])
             ELSE CallOf(makeMove(pos, move), ai, Append(rest, [f EXCEPT !.stage = "capture"]),
                         "quiescence", f.depth + 1, -f.beta, -f.alpha, 0)

\* AI::quiescence, lines 667-675: pos1 is the Position after unmakeMove
QsScored(pos1, ai, rest, f, score) ==
    IF score >= f.beta THEN ReturnOf(pos1, ai, rest, f, f.beta)
    ELSE QsLoop(pos1, ai, rest, [f EXCEPT !.alpha = Max(@, score), !.moveNum = @ + 1])

\* AI::quiescence from the return of the call it made to its next call or its
\* return
QsReturn(pos, ai, rest, f, v) == QsScored(unmakeMove(pos), ai, rest, f, -v)

RECURSIVE ChecksLoop(_, _, _)

\* AI::quiescence, lines 631-636: q is the Position after makeMove(m)
ChecksPush(moves, allMoves, i, q) ==
    ChecksLoop([moves |-> IF inCheck(q) THEN Append(moves, allMoves[i]) ELSE moves,
                pos |-> unmakeMove(q)],
               allMoves, i + 1)

\* AI::quiescence, lines 625-641: the checking moves among allMoves[i..] are
\* added to r.moves; r.pos is the Position as the loop has left it so far
ChecksLoop(r, allMoves, i) ==
    IF i > Len(allMoves) THEN r
    ELSE IF IsCapture(r.pos, allMoves[i]) THEN ChecksLoop(r, allMoves, i + 1)
    ELSE ChecksPush(r.moves, allMoves, i, makeMove(r.pos, allMoves[i]))

\* AI::quiescence, lines 643-648: r.moves are the captures (and checks)
QsOrder(r, ai, rest, f) ==
    QsLoop(r.pos, ai, rest,
           [f EXCEPT !.moves = orderMoves(r.pos, ai, r.moves, 0, 0), !.moveNum = 0])

\* AI::quiescence, lines 623-624: all is what generateLegalMoves returned and left
QsChecks(captures, all, ai, rest, f) ==
    QsOrder(ChecksLoop([moves |-> captures, pos |-> all.pos], all.moves, 1), ai, rest, f)

\* AI::quiescence, lines 619-623: r is what generateCaptures returned and left
QsMoves(r, ai, rest, f) ==
    IF f.depth = 0 /\ ~f.inCheck
    THEN QsChecks(r.moves, RunGenerateLegalMoves(r.pos), ai, rest, f)
    ELSE QsOrder(r, ai, rest, f)

\* AI::quiescence, lines 596-619: standPat is the value of evaluate(pos)
QsStandPat(pos, ai, rest, f, chk, standPat) ==
    IF ~chk /\ standPat >= f.beta THEN ReturnOf(pos, ai, rest, f, f.beta)
    ELSE IF ~chk /\ standPat + 900 < f.alpha THEN ReturnOf(pos, ai, rest, f, f.alpha)
    ELSE QsMoves(RunGenerateCaptures(pos), ai, rest,
                 [f EXCEPT !.inCheck = chk,
                           !.standPat = IF chk THEN 0 ELSE standPat,
                           !.alpha = IF ~chk /\ @ < standPat THEN standPat ELSE @])

\* AI::quiescence from its first line to its first call or return; c holds the
\* arguments
QsEnter(pos, ai, rest, c, ctz0) ==
    QsStandPat(pos, ai, rest, NewFrame("quiescence", pos, c.depth, c.alpha, c.beta, 0),
               inCheck(pos), evaluate(pos, ctz0))

----------------------------------------------------------------------------
(* The UCI front end (UCI.cpp) driving Game::getAIMove, that is                *)
(* AI::findBestMove on the engine's Position, with the search run as a machine *)
(* with an explicit call stack.                                                *)

\* the `go` commands of a run
MaxGo == 1

\* the largest reading of the clock, in milliseconds
MaxClock == 1

\* the nodes a search may count before the run is cut off
MaxNodes == 1400

\* 7k/2K5/8/3N4/8/1n6/8/8 b - - 0 1
KnightsFEN ==
    << <<"7", "k", "/", "2", "K", "5", "/", "8", "/", "3", "N", "4", "/", "8", "/", "1", "n", "6", "/", "8", "/", "8">>,
       <<"b">>,
       <<"-">>,
       <<"-">>,
       <<"0">>,
       <<"1">> >>

\* 7k/5Q2/6K1/8/8/8/8/8 b - - 0 1: Black is stalemated
StalemateFEN ==
    << <<"7", "k", "/", "5", "Q", "2", "/", "6", "K", "1", "/", "8", "/", "8", "/", "8", "/", "8", "/", "8">>,
       <<"b">>,
       <<"-">>,
       <<"-">>,
       <<"0">>,
       <<"1">> >>

\* the positions given with `position fen`
SearchFENs == {KnightsFEN, StalemateFEN}

\* the values given with `setoption name Depth value`
DepthValues == {0, 4}

\* UCI::handleGo, the parameters as the parsing loop leaves them
GoParams(depthSpecified, depth, movetime) ==
    [depthSpecified |-> depthSpecified, depth |-> depth, movetime |-> movetime,
     wtime |-> -1, btime |-> -1, winc |-> 0, binc |-> 0, movestogo |-> -1,
     infinite |-> FALSE]

\* `go depth 1` and `go movetime 51`
GoCommands == {GoParams(TRUE, 1, -1), GoParams(FALSE, 0, 51)}

\* UCI::handleGo, lines 180-222: the time limit handed to the search
TimeForMove(go, stm) ==
    LET ourTime == IF stm = WHITE THEN go.wtime ELSE go.btime
        ourInc == IF stm = WHITE THEN go.winc ELSE go.binc
        movesLeft == IF go.movestogo > 0 THEN go.movestogo ELSE 30
        t1 == Min(CDiv(ourTime, movesLeft) + CDiv(ourInc * 3, 4), CDiv(ourTime, 10))
        t2 == Min(Max(t1, 100), ourTime - 100)
    IN  IF go.infinite \/ go.depthSpecified THEN 0
        ELSE IF go.movetime > 0 THEN go.movetime - 50
        ELSE IF ourTime > 0 THEN Max(t2, 10)
        ELSE 0

\* AI::probeOpeningBook: the moves a probe can return, 0 for none
probeOpeningBook(a, pos) ==
    IF DOMAIN a.openingBook = {} \/ getFEN(pos) \notin DOMAIN a.openingBook
       \/ a.openingBook[getFEN(pos)] = <<>>
    THEN {0}
    ELSE {a.openingBook[getFEN(pos)][i] : i \in 1..Min(3, Len(a.openingBook[getFEN(pos)]))}

\* the characters a book line is written with, in the order of their codes:
\* '1' is 49 and 'a' is 97
BookDigits == <<"1", "2", "3", "4", "5", "6", "7", "8", "9">>

BookLetters == <<"a", "b", "c", "d", "e", "f", "g", "h", "i">>

CharCode(c) ==
    IF IndexOf(BookDigits, c) # 0 THEN 48 + IndexOf(BookDigits, c)
    ELSE 96 + IndexOf(BookLetters, c)

\* AI::loadOpeningBook, lines 92-93: the square (str[1] - '1') * 8 + (str[0] - 'a')
\* of two characters, which are not tested to be a file and a rank
BookSquare(fileCh, rankCh) == (CharCode(rankCh) - 49) * 8 + (CharCode(fileCh) - 97)

\* AI::loadOpeningBook with the test for a legal move left out: every string
\* of four characters or more becomes a move
RECURSIVE BookMovesUnchecked(_, _, _)
BookMovesUnchecked(legalMoves, strs, i) ==
    IF i > Len(strs) THEN <<>>
    ELSE IF Len(strs[i]) < 4 THEN BookMovesUnchecked(legalMoves, strs, i + 1)
    ELSE <<MakeMoveBits(BookSquare(strs[i][1], strs[i][2]), BookSquare(strs[i][3], strs[i][4]))>>
         \o BookMovesUnchecked(legalMoves, strs, i + 1)

\* AI::loadOpeningBook, lines 88-116: the moves of one line of the book, each
\* being the first legal move of bookPos with the squares (and the promotion
\* piece, if the string has five characters and a known letter) of its string
RECURSIVE BookMoves(_, _, _)
BookMoves(legalMoves, strs, i) ==
    IF i > Len(strs) THEN <<>>
    ELSE IF Len(strs[i]) < 4 THEN BookMoves(legalMoves, strs, i + 1)
    ELSE
    LET moveStr == strs[i]
        from == BookSquare(moveStr[1], moveStr[2])
        to == BookSquare(moveStr[3], moveStr[4])
        promotion == IF Len(moveStr) = 5 /\ IndexOf(PromoChars, moveStr[5]) # 0
                     THEN KNIGHT + IndexOf(PromoChars, moveStr[5]) - 1
                     ELSE NO_PIECE_TYPE
        Matches(m) == /\ fromSquare(m) = from
                      /\ toSquare(m) = to
                      /\ (promotion = NO_PIECE_TYPE \/ promotionType(m) = promotion)
        hits == {k \in 1..Len(legalMoves) : Matches(legalMoves[k])}
    IN  (IF hits = {} THEN <<>>
         ELSE <<legalMoves[CHOOSE k \in hits : \A j \in hits : k <= j]>>)
        \o BookMoves(legalMoves, strs, i + 1)

\* AI::loadOpeningBook, lines 118-120: the line's moves are entered under its
\* FEN unless there is none
BookWith(book, fen, moves) ==
    IF moves = <<>> THEN book
    ELSE [f \in DOMAIN book \cup {fen} |-> IF f = fen THEN moves ELSE book[f]]

\* AI::loadOpeningBook, lines 81-120: one line of the file, bookPos being what
\* setFromFEN made of its FEN
BookLine(book, line, bookPos) ==
    IF ~bookPos.ok THEN book
    ELSE BookWith(book, line.fen, BookMoves(generateLegalMoves(bookPos.pos), line.moves, 1))

\* AI::loadOpeningBook: the book read from the lines [fen, moves] of a file,
\* a later line replacing an earlier one with the same FEN; a line whose FEN
\* setFromFEN rejects and a line without a legal move are skipped
RECURSIVE loadOpeningBook(_)
loadOpeningBook(lines) ==
    IF lines = <<>> THEN <<>>
    ELSE BookLine(loadOpeningBook(SubSeq(lines, 1, Len(lines) - 1)), lines[Len(lines)],
                  setFromFEN(lines[Len(lines)].fen, <<0, 0>>))

\* no book.txt is found: the book stays empty
NoBookFile == <<>>

\* a book.txt for the starting position and the knights' ending; e2e5 is no
\* legal move
SampleBookFile ==
    << [fen |-> STARTING_FEN,
        moves |-> << <<"e", "2", "e", "4">>, <<"e", "2", "e", "5">>, <<"d", "2", "d", "4">> >>],
       [fen |-> KnightsFEN, moves |-> << <<"b", "3", "d", "4">> >>] >>

\* the book files the engine can find when it is constructed
BookFiles == {NoBookFile, SampleBookFile}

VARIABLES
    uciDepth,   \* UCI::searchDepth
    uciGame,    \* UCI::game: [position, result]
    ai,         \* UCI::game.ai
    uciOut,     \* the move of the last `bestmove` line printed, as text
    clock,      \* the reading of steady_clock, in milliseconds
    wraps,      \* the build's int arithmetic wraps around
    sPc,        \* "idle", "iter" (findBestMove is at the head of the deepening loop),
                \* "call" (negamax or quiescence is entered), "ret" (it has
                \* returned), "found" (findBestMove has returned)
    sRoot,      \* the locals of findBestMove
    sStack,     \* the frames of the calls of negamax and quiescence
    sCall,      \* the arguments of the call being entered
    sRet,       \* the value of the call that returned last
    sBest,      \* the move findBestMove returned
    goes,       \* the `go` commands handled
    goAt,       \* the reading of the clock when the last `go` arrived
    lastStop,   \* the last call of shouldStop: its result and the reading it took
    iterLog,    \* the iterations of the search: [started, timedOut, depth, move],
                \* depth and move being those of the last iteration that ran
                \* without a time-out
    lastExit    \* the last return: the function, the Position it was given and
                \* the Position it left

searchVars == <<uciDepth, uciGame, ai, uciOut, clock, wraps, sPc, sRoot, sStack, sCall,
                sRet, sBest, goes, goAt, lastStop, iterLog, lastExit>>

VARIABLES
    bookFile,   \* the lines of the book.txt that UCI::UCI found
    lastCmd,    \* the UCI command handled last
    consulted,  \* the sources AI::findBestMove has consulted since the last `go`
    aiAtGo,     \* the AI as UCI::handleGo handed it to Game::getAIMove
    lastGo      \* the parameters of the last `go`

uciVars == <<bookFile, lastCmd, consulted, aiAtGo, lastGo>>

\* a command as lastCmd records it; of a `position` newGame tells that
\* `ucinewgame` was the command before it, startpos that it names the starting
\* position, and applied counts the moves it made
Command(name, newGame, startpos, moves, applied) ==
    [name |-> name, newGame |-> newGame, startpos |-> startpos, moves |-> moves,
     applied |-> applied]

NoCommand == Command("none", FALSE, FALSE, <<>>, 0)

NoRoot ==
    [entry |-> ClearedPosition, rootMoves |-> <<>>, bestMove |-> 0, bestScore |-> 0,
     currentDepth |-> 0, alpha |-> 0, beta |-> 0, iterBestMove |-> 0,
     iterBestScore |-> 0, i |-> 0, stage |-> "none"]

NoStop == [called |-> FALSE, result |-> FALSE, clock |-> 0]

NoIterations == [started |-> 0, timedOut |-> FALSE, depth |-> 0, move |-> 0]

\* UCI::UCI, `file` being the book.txt it finds
SearchInitWith(file) ==
    /\ uciDepth = 6
    /\ uciGame = NewGame
    /\ ai = [NewAI(6) EXCEPT !.openingBook = loadOpeningBook(file)]
    /\ bookFile = file
    /\ lastCmd = NoCommand
    /\ consulted = <<>>
    /\ aiAtGo = NewAI(6)
    /\ lastGo = GoParams(FALSE, 0, -1)
    /\ uciOut = <<>>
    /\ clock = 0
    /\ wraps = FALSE
    /\ sPc = "idle"
    /\ sRoot = NoRoot
    /\ sStack = <<>>
    /\ sCall = NoCall
    /\ sRet = 0
    /\ sBest = 0
    /\ goes = 0
    /\ goAt = 0
    /\ lastStop = NoStop
    /\ iterLog = NoIterations
    /\ lastExit = NoExit

\* UCI::UCI without a book.txt
SearchInit == SearchInitWith(NoBookFile)


----------------------------------------------------------------------------
(* The Game and its Position driven through their public operations.        *)

VARIABLES
    game,       \* the Game object: [position, result]
    playable,   \* the position came from a well-formed FEN
    op,         \* the operation that ran last
    arg,        \* the argument it was given
    ret,        \* what it returned
    before,     \* the Game as the last operation of the run found it
    entry,      \* the Position as each makeMove / makeNullMove not yet undone found it;
                \* a move played through the Game is not undone
    undone,     \* the Position the last unmake had to restore
    steps       \* the operations run since the last reset

gameVars == <<game, playable, op, arg, ret, before, entry, undone, steps>>

\* the machine that runs MoveGen::perft (its actions are further down)
VARIABLES
    pfPc,       \* "idle", "call" (a call is entered), "loop" (the top frame is at
                \* the head of its loop), "ret" (a call has returned), "done"
    pfPos,      \* the Position perft works on
    pfDepth,    \* the depth argument of the call being entered
    pfStack,    \* the frames: [moves, i, nodes, depth]
    pfRet,      \* the value of the call that returned last
    pfFen,      \* the FEN the position was set from
    pfRoot      \* the depth argument of the outermost call

perftVars == <<pfPc, pfPos, pfDepth, pfStack, pfRet, pfFen, pfRoot>>

\* what the operations on the Game leave alone
notGame == <<perftVars, searchVars, uciVars>>

\* what perft leaves alone
notPerft == <<gameVars, searchVars, uciVars>>

notSearch == <<gameVars, perftVars, uciVars>>

\* what a UCI command leaves alone besides the variables of the search
notUci == <<gameVars, perftVars>>

vars == <<gameVars, perftVars, searchVars, uciVars>>

\* the operations of one run
MaxSteps == 2

\* the largest value an uninitialised counter is taken to hold
MaxJunk == 1

WellFormedFENs ==
    {CastlingFEN, PromotionFEN, EnPassantFEN, DoublePushFEN, PinnedFEN}

MalformedFENs == {BadCharFEN, FourFieldFEN, OneFieldFEN, LongRankFEN}

\* six well-formed fields that describe no position of a game
LooseFENs == {StrayEnPassantFEN}

SeqToSet(s) == {s[i] : i \in 1..Len(s)}

\* moves that no position of the model allows: a1a1 as a normal move and
\* e2e5 as a normal move
ProbeMoves == {MakeMoveBits(A1, A1) + 4096, MakeMoveBits(12, 36)}

\* strings that Game::parseMove rejects or that name no legal move
ProbeStrings ==
    { <<"e", "2">>, <<"z", "9", "e", "4">>, <<"e", "2", "e", "4", "x">>,
      <<"e", "3", "e", "4">>, <<"e", "2", "e", "5">> }

\* the moves offered to Game::makeMove: every pseudo-legal move and the probes
MoveInputs(p) == SeqToSet(generatePseudoLegalMoves(p)) \cup ProbeMoves

\* a Game has been constructed; perft is not running
IdleInit ==
    /\ pfPc = "idle"
    /\ pfPos = ClearedPosition
    /\ pfDepth = 0
    /\ pfStack = <<>>
    /\ pfRet = 0
    /\ pfFen = <<>>
    /\ pfRoot = 0
    /\ game = NewGame
    /\ playable = TRUE
    /\ op = "Game"
    /\ arg = <<>>
    /\ ret = TRUE
    /\ before = NewGame
    /\ entry = <<>>
    /\ undone = NewPosition
    /\ steps = 0

Init == IdleInit /\ SearchInit

\* Game::reset; the records of the run that ends here are dropped with it
Reset ==
    /\ UNCHANGED notGame
    /\ steps > 0
    /\ game' = reset(game)
    /\ playable' = TRUE
    /\ op' = "reset"
    /\ arg' = <<>>
    /\ ret' = TRUE
    /\ before' = reset(game)
    /\ entry' = <<>>
    /\ undone' = NewPosition
    /\ steps' = 0

\* Game::loadFEN
LoadFEN ==
    /\ UNCHANGED notGame
    /\ steps < MaxSteps
    /\ \E fen \in WellFormedFENs \cup MalformedFENs \cup LooseFENs :
       \E j1 \in 0..MaxJunk : \E j2 \in 0..MaxJunk :
       \E r \in {loadFEN(game, fen, <<j1, j2>>)} :
             /\ game' = r.game
             /\ ret' = r.ok
             /\ playable' = (fen \in WellFormedFENs)
             /\ op' = "loadFEN" /\ arg' = fen
    /\ before' = game
    /\ entry' = <<>>
    /\ steps' = steps + 1
    /\ UNCHANGED undone

\* Game::makeMove(Move)
DoGameMakeMove ==
    /\ UNCHANGED notGame
    /\ steps < MaxSteps
    /\ playable
    /\ \E move \in MoveInputs(game.position) :
       \E r \in {GameMakeMove(game, move)} :
             /\ game' = r.game
             /\ ret' = r.ok
             /\ op' = "Game::makeMove" /\ arg' = move
             /\ entry' = IF r.ok THEN <<>> ELSE entry
    /\ before' = game
    /\ steps' = steps + 1
    /\ UNCHANGED <<playable, undone>>

\* Game::makeMove(const std::string&)
DoGameMakeMoveString ==
    /\ UNCHANGED notGame
    /\ steps < MaxSteps
    /\ playable
    /\ \E moveStr \in ProbeStrings \cup
                      {moveToString(m) : m \in SeqToSet(generatePseudoLegalMoves(game.position))} :
       \E r \in {GameMakeMoveString(game, moveStr)} :
             /\ game' = r.game
             /\ ret' = r.ok
             /\ op' = "Game::makeMove" /\ arg' = moveStr
             /\ entry' = IF r.ok THEN <<>> ELSE entry
    /\ before' = game
    /\ steps' = steps + 1
    /\ UNCHANGED <<playable, undone>>

\* MoveGen::generateLegalMoves on the game's position
DoGenerateLegalMoves ==
    /\ UNCHANGED notGame
    /\ steps < MaxSteps
    /\ playable
    /\ \E r \in {RunGenerateLegalMoves(game.position)} :
           /\ game' = [game EXCEPT !.position = r.pos]
           /\ ret' = r.moves
    /\ op' = "generateLegalMoves"
    /\ arg' = <<>>
    /\ before' = game
    /\ steps' = steps + 1
    /\ UNCHANGED <<playable, entry, undone>>

\* Position::makeMove with a move that generateLegalMoves listed
DoMakeMove ==
    /\ UNCHANGED notGame
    /\ steps < MaxSteps
    /\ playable
    /\ \E move \in SeqToSet(generateLegalMoves(game.position)) :
         /\ game' = [game EXCEPT !.position = makeMove(game.position, move)]
         /\ op' = "makeMove" /\ arg' = move
    /\ ret' = TRUE
    /\ before' = game
    /\ entry' = Append(entry, game.position)
    /\ steps' = steps + 1
    /\ UNCHANGED <<playable, undone>>

\* Position::unmakeMove, paired with the makeMove it undoes
DoUnmakeMove ==
    /\ UNCHANGED notGame
    /\ steps < MaxSteps
    /\ playable
    /\ entry # <<>>
    /\ game.position.history[Len(game.position.history)].move # 0
    /\ game' = [game EXCEPT !.position = unmakeMove(game.position)]
    /\ op' = "unmakeMove"
    /\ arg' = <<>>
    /\ ret' = TRUE
    /\ before' = game
    /\ undone' = entry[Len(entry)]
    /\ entry' = SubSeq(entry, 1, Len(entry) - 1)
    /\ steps' = steps + 1
    /\ UNCHANGED playable

\* Position::makeNullMove, which the search calls when the side to move is
\* not in check
DoMakeNullMove ==
    /\ UNCHANGED notGame
    /\ steps < MaxSteps
    /\ playable
    /\ ~inCheck(game.position)
    /\ game' = [game EXCEPT !.position = makeNullMove(game.position)]
    /\ op' = "makeNullMove"
    /\ arg' = <<>>
    /\ ret' = TRUE
    /\ before' = game
    /\ entry' = Append(entry, game.position)
    /\ steps' = steps + 1
    /\ UNCHANGED <<playable, undone>>

\* Position::unmakeNullMove, paired with the makeNullMove it undoes
DoUnmakeNullMove ==
    /\ UNCHANGED notGame
    /\ steps < MaxSteps
    /\ playable
    /\ entry # <<>>
    /\ game.position.history[Len(game.position.history)].move = 0
    /\ game' = [game EXCEPT !.position = unmakeNullMove(game.position)]
    /\ op' = "unmakeNullMove"
    /\ arg' = <<>>
    /\ ret' = TRUE
    /\ before' = game
    /\ undone' = entry[Len(entry)]
    /\ entry' = SubSeq(entry, 1, Len(entry) - 1)
    /\ steps' = steps + 1
    /\ UNCHANGED playable

Next ==
    \/ Reset
    \/ LoadFEN
    \/ DoGameMakeMove
    \/ DoGameMakeMoveString
    \/ DoGenerateLegalMoves
    \/ DoMakeMove
    \/ DoUnmakeMove
    \/ DoMakeNullMove
    \/ DoUnmakeNullMove

Spec == Init /\ [][Next]_vars

----------------------------------------------------------------------------
(* Properties of the Game and its Position *)

PositionOps == {"makeMove", "unmakeMove", "makeNullMove", "unmakeNullMove"}

\* the hash setFromFEN computes for the position that getFEN describes
ScratchHash(p) == setFromFEN(getFEN(p), <<0, 0>>).pos.positionHash

\* C1: when unmakeMove has undone the makeMove of a generated legal move, the
\* FEN, the hash and the length of the history are what they were before the
\* makeMove.
C1_MakeUnmakeRestores ==
    op = "unmakeMove" =>
        /\ getFEN(game.position) = getFEN(undone)
        /\ game.position.positionHash = undone.positionHash
        /\ Len(game.position.history) = Len(undone.history)

\* the part of C1 the code keeps: the FEN and the length of the history
MakeUnmakeRestoresFEN ==
    op = "unmakeMove" =>
        /\ getFEN(game.position) = getFEN(undone)
        /\ Len(game.position.history) = Len(undone.history)

\* C2: after makeMove, makeNullMove and their unmakes, run on a position whose
\* hash equals the hash computed from scratch for its FEN, the hash still
\* equals the hash computed from scratch.
C2_HashMatchesScratch ==
    (op \in PositionOps /\ before.position.positionHash = ScratchHash(before.position))
        => game.position.positionHash = ScratchHash(game.position)

\* the mailbox, the colour bitboards and the type bitboards of p agree
BoardsAgree(p) ==
    /\ \A sq \in Squares :
         LET pc == p.board[sq]
         IN  /\ \A c \in {WHITE, BLACK} :
                  sq \in p.byColor[c] <=> (pc # NO_PIECE /\ colorOf(pc) = c)
             /\ \A pt \in PAWN..KING :
                  sq \in p.byType[pt] <=> (pc # NO_PIECE /\ typeOf(pc) = pt)
    /\ p.byColor[WHITE] \cap p.byColor[BLACK] = {}
    /\ p.byColor[WHITE] \cup p.byColor[BLACK] = UNION {p.byType[pt] : pt \in PAWN..KING}

\* C4: after a setFromFEN that returned true and after every makeMove,
\* unmakeMove, makeNullMove and unmakeNullMove the three representations of
\* the board agree, the colour bitboards are disjoint and their union is the
\* union of the type bitboards.
C4_BoardsAgree ==
    (ret = TRUE /\ op \in PositionOps \cup {"loadFEN", "Game::makeMove"})
        => BoardsAgree(game.position)

\* the same for the positions that come from well-formed FENs
BoardsAgreeWhenWellFormed == playable => BoardsAgree(game.position)

\* the pseudo-legal moves of p after which the mover's king is not attacked
KingSafeMoves(p) ==
    SelectSeq(generatePseudoLegalMoves(p),
              LAMBDA m : ~\E q \in {makeMove(p, m)} :
                            isAttacked(q, lsb(pieces(q, p.stm, KING)), Flip(p.stm)))

\* C5: generateLegalMoves returns exactly the pseudo-legal moves after which
\* the mover's king is not attacked, and leaves the position as it found it.
C5_LegalMovesAndPositionKept ==
    op = "generateLegalMoves" =>
        /\ ret = KingSafeMoves(before.position)
        /\ game.position = before.position

\* the part of C5 the code keeps: the list returned
LegalMovesAreKingSafe ==
    op = "generateLegalMoves" => ret = KingSafeMoves(before.position)

\* C7: a Game::makeMove that returns false leaves the board, the state fields,
\* the hash, the length of the history and the result unchanged.
C7_RejectedMoveChangesNothing ==
    (op = "Game::makeMove" /\ ret = FALSE) =>
        /\ game.position = before.position
        /\ game.result = before.result

\* the part of C7 the code keeps: everything but the hash
RejectedMoveKeepsBoard ==
    (op = "Game::makeMove" /\ ret = FALSE) =>
        /\ [game.position EXCEPT !.positionHash = {}] =
           [before.position EXCEPT !.positionHash = {}]
        /\ game.result = before.result

\* C8: for a FEN with an invalid character in the placement or with fewer
\* than six fields setFromFEN returns false and leaves the Position cleared.
C8_MalformedFENRejected ==
    (op = "loadFEN" /\ arg \in {BadCharFEN, FourFieldFEN, OneFieldFEN}) =>
        /\ ret = FALSE
        /\ game.position = ClearedPosition

\* the en-passant square is one that a double pawn push of the side that has
\* just moved leaves: behind a pawn of that side on its fourth rank
EnPassantSquareOfPush(p) ==
    \/ /\ rankOf(p.epSquare) = 2
       /\ p.stm = BLACK
       /\ p.board[p.epSquare + 8] = makePiece(WHITE, PAWN)
    \/ /\ rankOf(p.epSquare) = 5
       /\ p.stm = WHITE
       /\ p.board[p.epSquare - 8] = makePiece(BLACK, PAWN)

\* C17: after every setFromFEN that returns true and after every makeMove,
\* unmakeMove, makeNullMove and unmakeNullMove the en-passant square is
\* NO_SQUARE, or on rank 3 after a double push of White with Black to move,
\* or on rank 6 after a double push of Black with White to move.
C17_EnPassantSquareOnRank3Or6 ==
    (op \in {"loadFEN", "makeMove", "unmakeMove", "makeNullMove", "unmakeNullMove"}
         /\ ret = TRUE) =>
        \/ game.position.epSquare = NO_SQUARE
        \/ EnPassantSquareOfPush(game.position)

\* the part of C17 the code keeps: the moves keep what a FEN of a game set up
MovesKeepEnPassantSquare ==
    (op \in {"makeMove", "unmakeMove", "makeNullMove", "unmakeNullMove"}) =>
        \/ game.position.epSquare = NO_SQUARE
        \/ EnPassantSquareOfPush(game.position)

\* a pawn of the side to move attacks the en-passant square
EnPassantCapturable(p) ==
    /\ p.epSquare # NO_SQUARE
    /\ pawnAttacks(1 - p.stm, p.epSquare) \cap pieces(p, p.stm, PAWN) # {}

\* C18: the en-passant file key is part of the hash only when a pawn of the
\* side to move can capture en passant; a position whose en-passant square no
\* pawn can capture has the hash of the same position without that square.
C18_EnPassantKeyOnlyIfCapturable ==
    (op \in {"loadFEN", "makeMove"} /\ ret = TRUE
         /\ game.position.epSquare # NO_SQUARE
         /\ EnPassantSquareOfPush(game.position)
         /\ ~EnPassantCapturable(game.position)) =>
        ZobristEnpassant(fileOf(game.position.epSquare)) \notin game.position.positionHash

----------------------------------------------------------------------------
(* MoveGen::perft, run as a machine with an explicit call stack: a frame is *)
(* the activation of one call that has entered its loop.                    *)

\* the deepest perft from the starting position
MaxStartDepth == 4

\* the deepest perft from the Kiwipete position
MaxKiwipeteDepth == 3

\* a position is set from a FEN and perft is called on it
PerftStart ==
    /\ UNCHANGED notPerft
    /\ pfPc = "idle"
    /\ \E fen \in {STARTING_FEN, KiwipeteFEN} :
       \E depth \in 0..(IF fen = STARTING_FEN THEN MaxStartDepth ELSE MaxKiwipeteDepth) :
         /\ pfFen' = fen
         /\ pfRoot' = depth
         /\ pfDepth' = depth
         /\ pfPos' = setFromFEN(fen, <<0, 0>>).pos
    /\ pfPc' = "call"
    /\ UNCHANGED <<pfStack, pfRet>>

\* perft, lines 237-243: up to the loop
PerftEnter ==
    /\ UNCHANGED notPerft
    /\ pfPc = "call"
    /\ IF pfDepth = 0
       THEN /\ pfRet' = 1
            /\ pfPc' = "ret"
            /\ UNCHANGED <<pfPos, pfStack>>
       ELSE \E r \in {RunGenerateLegalMoves(pfPos)} :
            /\ pfPos' = r.pos
            /\ IF pfDepth = 1
               THEN /\ pfRet' = Len(r.moves)
                    /\ pfPc' = "ret"
                    /\ UNCHANGED pfStack
               ELSE /\ pfStack' = Append(pfStack, [moves |-> r.moves, i |-> 1,
                                                   nodes |-> 0, depth |-> pfDepth])
                    /\ pfPc' = "loop"
                    /\ UNCHANGED pfRet
    /\ UNCHANGED <<pfDepth, pfFen, pfRoot>>

\* perft, lines 244-246 and 250: the next move is made and perft called on the
\* result, or the loop has ended and the call returns
PerftLoop ==
    /\ UNCHANGED notPerft
    /\ pfPc = "loop"
    /\ LET f == pfStack[Len(pfStack)]
       IN  IF f.i > Len(f.moves)
           THEN /\ pfRet' = f.nodes
                /\ pfStack' = SubSeq(pfStack, 1, Len(pfStack) - 1)
                /\ pfPc' = "ret"
                /\ UNCHANGED <<pfPos, pfDepth>>
           ELSE /\ pfPos' = makeMove(pfPos, f.moves[f.i])
                /\ pfDepth' = f.depth - 1
                /\ pfPc' = "call"
                /\ UNCHANGED <<pfStack, pfRet>>
    /\ UNCHANGED <<pfFen, pfRoot>>

\* perft, lines 246-247: the caller adds the value returned and unmakes the
\* move; the outermost call hands its value to the caller of perft
PerftReturn ==
    /\ UNCHANGED notPerft
    /\ pfPc = "ret"
    /\ IF pfStack = <<>>
       THEN /\ pfPc' = "done"
            /\ UNCHANGED <<pfPos, pfStack>>
       ELSE /\ pfStack' = [pfStack EXCEPT ![Len(pfStack)].nodes = @ + pfRet,
                                          ![Len(pfStack)].i = @ + 1]
            /\ pfPos' = unmakeMove(pfPos)
            /\ pfPc' = "loop"
    /\ UNCHANGED <<pfDepth, pfRet, pfFen, pfRoot>>

PerftNext ==
    \/ PerftStart
    \/ PerftEnter
    \/ PerftLoop
    \/ PerftReturn

SpecPerft == Init /\ [][PerftNext]_vars

\* the node counts of the reference suite
PerftReference ==
    [fen \in {STARTING_FEN, KiwipeteFEN} |->
        IF fen = STARTING_FEN THEN <<20, 400, 8902, 197281, 4865609>>
        ELSE <<48, 2039, 97862, 4085603>>]

----------------------------------------------------------------------------
(* The steps of a search.                                                   *)

\* the step m of a search becomes the state
Becomes(m) ==
    /\ uciGame' = [uciGame EXCEPT !.position = m.pos]
    /\ ai' = m.ai
    /\ sStack' = m.stack
    /\ sPc' = m.pc
    /\ sCall' = m.call
    /\ sRet' = m.ret
    /\ lastExit' = m.exit

\* UCI::parseMove, lines 342-358: the first of the legal moves r.moves with the
\* squares of the string and, if it has five characters, its promotion piece
FindUciMove(g, from, to, isPromotion, promoType, r) ==
    LET Matches(m) ==
            /\ fromSquare(m) = from
            /\ toSquare(m) = to
            /\ IF isPromotion
               THEN moveType(m) = PROMOTION /\ promotionType(m) = promoType
               ELSE moveType(m) # PROMOTION
        hits == {k \in 1..Len(r.moves) : Matches(r.moves[k])}
    IN  [move |-> IF hits = {} THEN 0
                  ELSE r.moves[CHOOSE k \in hits : \A j \in hits : k <= j],
         game |-> [g EXCEPT !.position = r.pos]]

\* UCI::parseMove: [move |-> the move returned, 0 for none,
\* game |-> the Game as generateLegalMoves leaves it]
UciParseMove(g, moveStr) ==
    IF Len(moveStr) < 4 THEN [move |-> 0, game |-> g]
    ELSE IF \/ IndexOf(FileChars, moveStr[1]) = 0 \/ IndexOf(RankChars, moveStr[2]) = 0
            \/ IndexOf(FileChars, moveStr[3]) = 0 \/ IndexOf(RankChars, moveStr[4]) = 0
    THEN [move |-> 0, game |-> g]
    ELSE IF Len(moveStr) = 5 /\ IndexOf(PromoChars, moveStr[5]) = 0
    THEN [move |-> 0, game |-> g]
    ELSE FindUciMove(g,
             makeSquare(IndexOf(FileChars, moveStr[1]) - 1, IndexOf(RankChars, moveStr[2]) - 1),
             makeSquare(IndexOf(FileChars, moveStr[3]) - 1, IndexOf(RankChars, moveStr[4]) - 1),
             Len(moveStr) = 5,
             IF Len(moveStr) = 5 THEN KNIGHT + IndexOf(PromoChars, moveStr[5]) - 1 ELSE KNIGHT,
             RunGenerateLegalMoves(g.position))

RECURSIVE PlayUciMoves(_, _, _)

\* UCI::handlePosition, lines 129-136: Game::makeMove has returned made.ok for
\* the move at place i
PlayMade(made, moveStrs, i) ==
    IF ~made.ok THEN [game |-> made.game, applied |-> i - 1]
    ELSE PlayUciMoves(made.game, moveStrs, i + 1)

\* UCI::handlePosition, lines 128-140: parseMove has returned parsed.move for
\* the string at place i
PlayParsed(parsed, moveStrs, i) ==
    IF parsed.move = 0 THEN [game |-> parsed.game, applied |-> i - 1]
    ELSE PlayMade(GameMakeMove(parsed.game, parsed.move), moveStrs, i)

\* UCI::handlePosition, lines 125-141: the moves after `moves` are parsed and
\* made one by one until one is not parsed or not made;
\* [game |-> the Game afterwards, applied |-> the moves made]
PlayUciMoves(g, moveStrs, i) ==
    IF i > Len(moveStrs) THEN [game |-> g, applied |-> i - 1]
    ELSE PlayParsed(UciParseMove(g, moveStrs[i]), moveStrs, i)

\* UCI::handlePosition, lines 113-122: Game::loadFEN has returned loaded.ok
PlayLoaded(loaded, moveStrs) ==
    IF ~loaded.ok THEN [game |-> loaded.game, applied |-> 0]
    ELSE PlayUciMoves(loaded.game, moveStrs, 1)

\* UCI::handlePosition on the Game, for `position startpos` and for
\* `position fen` followed by the FEN target
handlePosition(g, startpos, target, moveStrs) ==
    IF startpos THEN PlayUciMoves(reset(g), moveStrs, 1)
    ELSE PlayLoaded(loadFEN(reset(g), target, <<0, 0>>), moveStrs)

\* a `position` command
PositionCommand(startpos, target, moveStrs) ==
    [startpos |-> startpos, target |-> target, moves |-> moveStrs]

\* `position startpos` and `position fen ...` without moves
PositionCommands ==
    {PositionCommand(TRUE, <<>>, <<>>)}
        \cup {PositionCommand(FALSE, fen, <<>>) : fen \in SearchFENs}

\* UCI::handleSetOption, `setoption name Depth value v`
UciSetOption ==
    /\ UNCHANGED notUci
    /\ sPc = "idle"
    /\ \E v \in DepthValues :
          /\ uciDepth' = v
          /\ ai' = [ai EXCEPT !.depth = v]
    /\ lastCmd' = Command("setoption", FALSE, FALSE, <<>>, 0)
    /\ UNCHANGED <<bookFile, consulted, aiAtGo, lastGo>>
    /\ UNCHANGED <<uciGame, uciOut, clock, wraps, sPc, sRoot, sStack, sCall, sRet, sBest,
                   goes, goAt, lastStop, iterLog, lastExit>>

\* `ucinewgame` handled by constructing a new Game, whose AI has no book
UciNewGameFresh ==
    /\ UNCHANGED notUci
    /\ sPc = "idle"
    /\ uciGame' = NewGame
    /\ ai' = NewAI(uciDepth)
    /\ lastCmd' = Command("ucinewgame", FALSE, FALSE, <<>>, 0)
    /\ UNCHANGED <<bookFile, consulted, aiAtGo, lastGo>>
    /\ UNCHANGED <<uciDepth, uciOut, clock, wraps, sPc, sRoot, sStack, sCall, sRet, sBest,
                   goes, goAt, lastStop, iterLog, lastExit>>

\* UCI::handleNewGame, `ucinewgame`
UciNewGame ==
    /\ UNCHANGED notUci
    /\ sPc = "idle"
    /\ uciGame' = reset(uciGame)
    /\ ai' = [ai EXCEPT !.depth = uciDepth]
    /\ lastCmd' = Command("ucinewgame", FALSE, FALSE, <<>>, 0)
    /\ UNCHANGED <<bookFile, consulted, aiAtGo, lastGo>>
    /\ UNCHANGED <<uciDepth, uciOut, clock, wraps, sPc, sRoot, sStack, sCall, sRet, sBest,
                   goes, goAt, lastStop, iterLog, lastExit>>

\* UCI::handlePosition with one of the commands cmds
UciPositionWith(cmds) ==
    /\ UNCHANGED notUci
    /\ sPc = "idle"
    /\ \E cmd \in cmds :
       \E r \in {handlePosition(uciGame, cmd.startpos, cmd.target, cmd.moves)} :
          /\ uciGame' = r.game
          /\ lastCmd' = Command("position", lastCmd.name = "ucinewgame", cmd.startpos,
                                cmd.moves, r.applied)
    /\ ai' = [ai EXCEPT !.depth = uciDepth]
    /\ UNCHANGED <<bookFile, consulted, aiAtGo, lastGo>>
    /\ UNCHANGED <<uciDepth, uciOut, clock, wraps, sPc, sRoot, sStack, sCall, sRet, sBest,
                   goes, goAt, lastStop, iterLog, lastExit>>

\* UCI::handlePosition, `position startpos` and `position fen ...`
UciPosition == UciPositionWith(PositionCommands)

\* AI::findBestMove, lines 192-203, r being what generateLegalMoves returned
\* and left
SearchStart(a, pos, r) ==
    /\ ai' = a
    /\ uciGame' = [uciGame EXCEPT !.position = r.pos]
    /\ IF r.moves = <<>>
       THEN /\ sPc' = "found"
            /\ sBest' = 0
            /\ sRoot' = NoRoot
            /\ lastExit' = [fn |-> "findBestMove", entry |-> pos, exit |-> r.pos]
       ELSE /\ sPc' = "iter"
            /\ sRoot' = [NoRoot EXCEPT !.entry = pos, !.rootMoves = r.moves,
                                       !.bestMove = r.moves[1], !.bestScore = INT_MIN,
                                       !.currentDepth = 1]
            /\ UNCHANGED <<sBest, lastExit>>

\* Tablebase::available: `initialized` is false (Tablebase.cpp, line 28) until
\* Tablebase::init succeeds, and nothing calls AI::initTablebases
TablebaseAvailable == FALSE

\* AI::findBestMove probing the book after the counters of the search were set
\* up
BookMoveAfterSetUp(a, bookMove) ==
    /\ ai' = [a EXCEPT !.nodesSearched = 0, !.ttHits = 0, !.ttAge = (@ + 1) % 256]
    /\ sPc' = "found"
    /\ sBest' = bookMove
    /\ lastExit' = [fn |-> "findBestMove", entry |-> uciGame.position,
                    exit |-> uciGame.position]
    /\ consulted' = <<"book">>
    /\ UNCHANGED <<uciGame, sRoot>>

\* AI::findBestMove, lines 166-171: the book has a move and it is returned
BookMove(a, bookMove) ==
    /\ ai' = a
    /\ sPc' = "found"
    /\ sBest' = bookMove
    /\ lastExit' = [fn |-> "findBestMove", entry |-> uciGame.position,
                    exit |-> uciGame.position]
    /\ consulted' = <<"book">>
    /\ UNCHANGED <<uciGame, sRoot>>

\* UCI::handleGo with one of the commands cmds, up to the head of the deepening
\* loop of AI::findBestMove, which Game::getAIMove calls on the Game's Position
\* (Tablebase::available() is false: nothing calls AI::initTablebases, so the
\* tablebase is not probed)
UciGoUpTo(cmds, most) ==
    /\ UNCHANGED notUci
    /\ sPc = "idle"
    /\ goes < most
    /\ goes' = goes + 1
    /\ \E t \in clock..MaxClock : clock' = t /\ goAt' = t
    /\ \E w \in BOOLEAN : wraps' = w
    /\ \E go \in cmds :
       \E bookMove \in probeOpeningBook(ai, uciGame.position) :
       \E a \in {[ai EXCEPT !.timeLimit = TimeForMove(go, uciGame.position.stm),
                            !.depth = IF go.depthSpecified THEN go.depth ELSE uciDepth]} :
          /\ lastGo' = go
          /\ aiAtGo' = a
          /\ IF bookMove # 0
             THEN BookMove(a, bookMove)
             ELSE /\ SearchStart([a EXCEPT !.nodesSearched = 0, !.ttHits = 0,
                                           !.ttAge = (@ + 1) % 256],
                                 uciGame.position, RunGenerateLegalMoves(uciGame.position))
                  /\ consulted' = IF TablebaseAvailable
                                  THEN <<"book", "tablebase", "search">>
                                  ELSE <<"book", "search">>
    /\ lastCmd' = Command("go", FALSE, FALSE, <<>>, 0)
    /\ lastStop' = NoStop
    /\ iterLog' = NoIterations
    /\ UNCHANGED <<bookFile, uciDepth, uciOut, sStack, sCall, sRet>>

\* UCI::handleGo with one of the commands cmds, in a session of MaxGo `go`
UciGoWith(cmds) == UciGoUpTo(cmds, MaxGo)

\* UCI::handleGo, `go depth 1` and `go movetime 51`
UciGo == UciGoWith(GoCommands)

\* AI::findBestMove, lines 281-286: the deepening loop is left
SearchEnd ==
    /\ sPc' = "found"
    /\ sBest' = sRoot.bestMove
    /\ lastExit' = [fn |-> "findBestMove", entry |-> sRoot.entry, exit |-> uciGame.position]
    /\ UNCHANGED <<uciGame, ai, sRoot, sStack, sCall, sRet, iterLog>>

\* AI::findBestMove, lines 236-247: the root move at place i is made and
\* searched
RootSearch(root, pos1) ==
    /\ sRoot' = root
    /\ Becomes(CallOf(pos1, ai, <<>>, "negamax", root.currentDepth - 1,
                      -root.beta, -root.alpha, 1))

\* AI::findBestMove, lines 214-235: an iteration begins with the moves ordered
IterBegin(root, moves) ==
    RootSearch([root EXCEPT !.rootMoves = moves, !.iterBestMove = moves[1],
                            !.iterBestScore = INT_MIN, !.i = 1, !.stage = "move"],
               makeMove(uciGame.position, moves[1]))

\* AI::findBestMove, lines 206-235: the head of the deepening loop
IterStart ==
    /\ UNCHANGED notSearch
    /\ sPc = "iter"
    /\ IF sRoot.currentDepth > ai.depth
       THEN SearchEnd /\ UNCHANGED <<clock, lastStop>>
       ELSE \E t \in (IF ai.timeLimit = 0 THEN {clock} ELSE clock..MaxClock) :
            /\ clock' = t
            /\ lastStop' = [called |-> TRUE, result |-> shouldStop(ai, t), clock |-> t]
            /\ IF shouldStop(ai, t)
               THEN SearchEnd
               ELSE /\ IterBegin(
                          IF sRoot.currentDepth >= 5 /\ sRoot.bestScore # INT_MIN
                          THEN [sRoot EXCEPT !.alpha = sRoot.bestScore - 50,
                                             !.beta = sRoot.bestScore + 50]
                          ELSE [sRoot EXCEPT !.alpha = INT_MIN + 1, !.beta = INT_MAX - 1],
                          orderMoves(uciGame.position, ai, sRoot.rootMoves, 0, sRoot.bestMove))
                    /\ iterLog' = [iterLog EXCEPT !.started = sRoot.currentDepth,
                                                  !.timedOut = FALSE]
                    /\ UNCHANGED sBest
    /\ UNCHANGED <<uciDepth, uciOut, wraps, goes, goAt>>

\* AI::findBestMove, lines 272-273: the iteration's result is adopted
IterEnd(root, pos) ==
    /\ sRoot' = [root EXCEPT !.bestMove = root.iterBestMove, !.bestScore = root.iterBestScore,
                             !.currentDepth = @ + 1, !.stage = "none"]
    /\ uciGame' = [uciGame EXCEPT !.position = pos]
    /\ sPc' = "iter"
    /\ iterLog' = IF iterLog.timedOut THEN iterLog
                  ELSE [iterLog EXCEPT !.depth = root.currentDepth, !.move = root.iterBestMove]
    /\ UNCHANGED <<ai, sStack, sCall, sRet, lastExit>>

\* AI::findBestMove, lines 248-270: `root` holds the locals after the score of
\* the root move at place i, pos is the Position after its unmakeMove
RootNext(root, pos) ==
    IF root.i < Len(root.rootMoves)
    THEN /\ RootSearch([root EXCEPT !.i = @ + 1], makeMove(pos, root.rootMoves[root.i + 1]))
         /\ UNCHANGED iterLog
    ELSE IF root.currentDepth >= 5
            /\ (root.iterBestScore <= root.alpha - 50 \/ root.iterBestScore >= root.beta + 50)
    THEN /\ RootSearch([root EXCEPT !.alpha = INT_MIN + 1, !.beta = INT_MAX - 1,
                                    !.stage = "research"],
                       makeMove(pos, root.iterBestMove))
         /\ UNCHANGED iterLog
    ELSE IterEnd(root, pos)

\* AI::findBestMove from the return of negamax to its next call or to the head
\* of the deepening loop
RootReturn ==
    /\ UNCHANGED notSearch
    /\ sPc = "ret"
    /\ sStack = <<>>
    /\ IF sRoot.stage = "research"
       THEN IterEnd([sRoot EXCEPT !.iterBestScore = -sRet], unmakeMove(uciGame.position))
       ELSE RootNext([sRoot EXCEPT
                         !.iterBestScore = IF -sRet > @ THEN -sRet ELSE @,
                         !.iterBestMove = IF -sRet > sRoot.iterBestScore
                                          THEN sRoot.rootMoves[sRoot.i] ELSE @,
                         !.alpha = Max(@, -sRet)],
                     unmakeMove(uciGame.position))
    /\ UNCHANGED <<uciDepth, uciOut, clock, wraps, sBest, goes, goAt, lastStop>>

\* AI::negamax is entered
NegamaxEnterWithin(cap) ==
    /\ UNCHANGED notSearch
    /\ sPc = "call"
    /\ sCall.fn = "negamax"
    /\ ai.nodesSearched < cap
    /\ \E reads \in {(ai.nodesSearched + 1) % 1024 = 0} :
       \E t \in (IF reads /\ ai.timeLimit # 0 THEN clock..MaxClock ELSE {clock}) :
       \E ctz0 \in CtzOutcomes(uciGame.position) :
          /\ clock' = t
          /\ lastStop' = IF reads
                         THEN [called |-> TRUE, result |-> shouldStop(ai, t), clock |-> t]
                         ELSE lastStop
          /\ iterLog' = IF reads /\ shouldStop(ai, t)
                        THEN [iterLog EXCEPT !.timedOut = TRUE] ELSE iterLog
          /\ Becomes(NmEnter(uciGame.position, CountNode(ai), sStack, sCall,
                             reads /\ shouldStop(ai, t), ctz0, wraps))
    /\ UNCHANGED <<uciDepth, uciOut, wraps, sRoot, sBest, goes, goAt>>

NegamaxEnter == NegamaxEnterWithin(MaxNodes)

\* AI::quiescence is entered, fewer than cap nodes having been counted
QuiescenceEnterWithin(cap) ==
    /\ UNCHANGED notSearch
    /\ sPc = "call"
    /\ sCall.fn = "quiescence"
    /\ ai.nodesSearched < cap
    /\ \E ctz0 \in CtzOutcomes(uciGame.position) :
          Becomes(QsEnter(uciGame.position, CountNode(ai), sStack, sCall, ctz0))
    /\ UNCHANGED <<uciDepth, uciOut, clock, wraps, sRoot, sBest, goes, goAt, lastStop,
                   iterLog>>

QuiescenceEnter == QuiescenceEnterWithin(MaxNodes)

\* a call made by AI::negamax returns to it
NegamaxReturn ==
    /\ UNCHANGED notSearch
    /\ sPc = "ret"
    /\ sStack # <<>>
    /\ sStack[Len(sStack)].fn = "negamax"
    /\ \E ctz0 \in CtzOutcomes(uciGame.position) :
          Becomes(NmReturn(uciGame.position, ai, SubSeq(sStack, 1, Len(sStack) - 1),
                           sStack[Len(sStack)], sRet, ctz0, wraps))
    /\ UNCHANGED <<uciDepth, uciOut, clock, wraps, sRoot, sBest, goes, goAt, lastStop,
                   iterLog>>

\* a call made by AI::quiescence returns to it
QuiescenceReturn ==
    /\ UNCHANGED notSearch
    /\ sPc = "ret"
    /\ sStack # <<>>
    /\ sStack[Len(sStack)].fn = "quiescence"
    /\ Becomes(QsReturn(uciGame.position, ai, SubSeq(sStack, 1, Len(sStack) - 1),
                        sStack[Len(sStack)], sRet))
    /\ UNCHANGED <<uciDepth, uciOut, clock, wraps, sRoot, sBest, goes, goAt, lastStop,
                   iterLog>>

\* UCI::handleGo, lines 236-249: Game::getAIMove has returned
UciBestMove ==
    /\ UNCHANGED notSearch
    /\ sPc = "found"
    /\ sPc' = "idle"
    /\ ai' = [ai EXCEPT !.timeLimit = 0]
    /\ uciOut' = IF sBest # 0 THEN moveToString(sBest) ELSE <<"0", "0", "0", "0">>
    /\ UNCHANGED <<uciDepth, uciGame, clock, wraps, sRoot, sStack, sCall, sRet, sBest, goes,
                   goAt, lastStop, iterLog, lastExit>>

SearchNext ==
    \/ UciSetOption
    \/ UciPosition
    \/ UciGo
    \/ IterStart
    \/ NegamaxEnter
    \/ QuiescenceEnter
    \/ NegamaxReturn
    \/ QuiescenceReturn
    \/ RootReturn
    \/ UciBestMove

SpecSearch == Init /\ [][SearchNext]_vars


\* a call of negamax, quiescence or findBestMove has returned with the board,
\* the side to move, the rights, the en passant square, the counters and the
\* history length it was given
SearchKeepsBoard ==
    lastExit.fn # "none" =>
        /\ Len(lastExit.exit.history) = Len(lastExit.entry.history)
        /\ getFEN(lastExit.exit) = getFEN(lastExit.entry)

\* C3: every call of negamax, quiescence and findBestMove returns with the
\* Position as it was on entry: the same history length, FEN and hash.
C3_SearchRestoresPosition ==
    lastExit.fn # "none" =>
        /\ Len(lastExit.exit.history) = Len(lastExit.entry.history)
        /\ getFEN(lastExit.exit) = getFEN(lastExit.entry)
        /\ lastExit.exit.positionHash = lastExit.entry.positionHash

\* C9: when a time-out cut an iteration of the deepening loop short and an
\* earlier iteration ran to its end, findBestMove returns the best move of the
\* last iteration that ran to its end.
C9_InterruptedIterationDiscarded ==
    (sPc = "found" /\ iterLog.timedOut /\ iterLog.depth >= 1) => sBest = iterLog.move

\* C10: in a search started by `go` with a non-zero time limit, shouldStop
\* returns true exactly when the time since that `go` is at least the limit,
\* and the search of a position with legal moves, at a depth of at least 1,
\* starts iteration 1.
C10_ShouldStopMeasuresFromGo ==
    /\ (lastStop.called /\ ai.timeLimit # 0) =>
           (lastStop.result <=> lastStop.clock - goAt >= ai.timeLimit)
    /\ (sPc = "found" /\ ai.timeLimit # 0 /\ ai.depth >= 1 /\ sRoot.rootMoves # <<>>) =>
           iterLog.started >= 1

----------------------------------------------------------------------------
(* The engine driven through its UCI commands, with and without a book.     *)

\* the nodes a search of this part may count before the run is cut off
MaxUciNodes == 30

\* k7/8/8/8/8/8/1p6/K7 w - - 0 1: the pawn can be taken or promote
PawnFEN ==
    << <<"k", "7", "/", "8", "/", "8", "/", "8", "/", "8", "/", "8", "/", "1", "p", "6", "/", "K", "7">>,
       <<"w">>,
       <<"-">>,
       <<"-">>,
       <<"0">>,
       <<"1">> >>

\* `position startpos` and `position fen ...` before a `go`
GoPositionCommands == PositionCommands \cup {PositionCommand(FALSE, PawnFEN, <<>>)}

\* `go wtime t btime t`
GoClock(t) == [GoParams(FALSE, 0, -1) EXCEPT !.wtime = t, !.btime = t]

\* `go depth 2`, `go movetime 50`, `go movetime 51` and `go wtime 500 btime 500`
UciGoCommands == {GoParams(TRUE, 2, -1), GoParams(FALSE, 0, 50), GoParams(FALSE, 0, 51),
                  GoClock(500)}

\* UCI::UCI, with the book.txt it finds
InitUci == IdleInit /\ \E file \in BookFiles : SearchInitWith(file)

UciNext ==
    \/ UciSetOption
    \/ UciNewGame
    \/ UciPositionWith(GoPositionCommands)
    \/ UciGoWith(UciGoCommands)
    \/ IterStart
    \/ NegamaxEnterWithin(MaxUciNodes)
    \/ QuiescenceEnterWithin(MaxUciNodes)
    \/ NegamaxReturn
    \/ QuiescenceReturn
    \/ RootReturn
    \/ UciBestMove

SpecUci == InitUci /\ [][UciNext]_vars

BookMoveReturned == sPc = "found" /\ consulted = <<"book">> /\ sBest # 0

\* the time limit has ended a search before its first iteration was complete
TimedOutMoveReturned ==
    sPc = "found" /\ lastStop.called /\ lastStop.result /\ sBest # 0

\* `bestmove 0000` has been printed
NoMovePrinted == sPc = "idle" /\ lastCmd.name = "go" /\ uciOut = <<"0", "0", "0", "0">>

SearchAfterBookMiss ==
    /\ sPc = "call"
    /\ consulted = <<"book", "search">>
    /\ DOMAIN ai.openingBook # {}


\* C14: after `ucinewgame` the transposition table, the killer table, the
\* history table, the counter-move table and the PV table are as cleared as
\* directly after construction: no entry of an earlier search survives.
C14_NewGameClearsSearchTables ==
    lastCmd.name = "ucinewgame" =>
        /\ ai.transpositionTable = NewAI(uciDepth).transpositionTable
        /\ ai.killerMoves = NewAI(uciDepth).killerMoves
        /\ ai.historyTable = NewAI(uciDepth).historyTable
        /\ ai.countermoves = NewAI(uciDepth).countermoves
        /\ ai.pvTable = NewAI(uciDepth).pvTable
        /\ ai.pvLength = NewAI(uciDepth).pvLength

\* C15: `ucinewgame` resets the Position to the start state (empty history,
\* result IN_PROGRESS) and keeps the opening book loaded at construction:
\* every `go` sees the book that was read from the file.
C15_NewGameKeepsBook ==
    /\ lastCmd.name = "ucinewgame" =>
           /\ uciGame.position = NewPosition
           /\ uciGame.position.history = <<>>
           /\ uciGame.result = IN_PROGRESS
    /\ ai.openingBook = loadOpeningBook(bookFile)
    /\ sPc # "idle" => aiAtGo.openingBook = loadOpeningBook(bookFile)

\* `ucinewgame` has been handled after a search, by an engine with a book
C15_Witness ==
    /\ lastCmd.name = "ucinewgame"
    /\ DOMAIN ai.openingBook # {}
    /\ goes >= 1
    /\ ai.ttAge >= 1

\* C20: for a `go` without `depth` and `infinite` the time limit handed to the
\* search is positive and keeps the safety margin: with `movetime m`, m > 0,
\* it is m - 50 and greater than 0; with a remaining clock T > 0 of the side
\* to move it is at least 100 ms, at most 10% of T and at most T - 100 ms.
C20_TimeLimitKeepsMargin ==
    (sPc = "found" /\ lastCmd.name = "go" /\ ~lastGo.depthSpecified /\ ~lastGo.infinite) =>
        LET ourTime == IF lastExit.entry.stm = WHITE THEN lastGo.wtime ELSE lastGo.btime
            limit == aiAtGo.timeLimit
        IN  IF lastGo.movetime > 0
            THEN limit = lastGo.movetime - 50 /\ limit > 0
            ELSE ourTime > 0 =>
                     /\ limit >= 100
                     /\ 10 * limit <= ourTime
                     /\ limit <= ourTime - 100

\* the part of C20 the code keeps: the limit of a `go movetime m` is m - 50
MovetimeLessFifty ==
    (sPc = "found" /\ lastCmd.name = "go" /\ ~lastGo.depthSpecified /\ ~lastGo.infinite
         /\ lastGo.movetime > 0) =>
        aiAtGo.timeLimit = lastGo.movetime - 50

----------------------------------------------------------------------------
(* The commands that set up the position.                                   *)

\* the move lists given after `moves`; e2e5 is no legal move and e2 no move
UciMoveLists ==
    { << <<"e", "2", "e", "4">> >>,
      << <<"e", "2", "e", "4">>, <<"e", "7", "e", "5">> >>,
      << <<"e", "2", "e", "4">>, <<"e", "7", "e", "5">>, <<"g", "1", "f", "3">>,
         <<"b", "8", "c", "6">> >>,
      << <<"e", "2", "e", "4">>, <<"e", "2", "e", "5">>, <<"d", "7", "d", "5">> >>,
      << <<"e", "2">>, <<"e", "2", "e", "4">> >> }

\* `position startpos moves ...` and `position fen ... moves ...`
UciPositionCommands ==
    PositionCommands
        \cup {PositionCommand(TRUE, <<>>, moveStrs) : moveStrs \in UciMoveLists}
        \cup {PositionCommand(FALSE, KnightsFEN, << <<"b", "3", "d", "4">> >>)}

PositionNext ==
    \/ UciSetOption
    \/ UciNewGame
    \/ UciPositionWith(UciPositionCommands)

SpecPosition == InitUci /\ [][PositionNext]_vars

\* the legal move of p that a string in UCI notation names
MoveOfString(p, moveStr) == UciParseMove([position |-> p, result |-> IN_PROGRESS], moveStr).move

\* makeMove(m1) .. makeMove(mn) applied to a freshly constructed Position (a
\* string that names no legal move ends the sequence)
RECURSIVE FreshMoves(_, _)
FreshMoves(moveStrs, n) ==
    IF n = 0 THEN NewPosition
    ELSE LET p == FreshMoves(moveStrs, n - 1)
         IN  IF MoveOfString(p, moveStrs[n]) = 0 THEN p
             ELSE makeMove(p, MoveOfString(p, moveStrs[n]))

\* `ucinewgame` and `position startpos moves m1 .. mn` with legal moves have
\* been processed
NewGamePositionProcessed ==
    /\ lastCmd.name = "position"
    /\ lastCmd.newGame
    /\ lastCmd.startpos
    /\ lastCmd.applied = Len(lastCmd.moves)

\* C13: after `ucinewgame` and `position startpos moves m1 .. mn` with legal
\* moves the engine's Position equals, in every field (boards, side to move,
\* castling rights, en-passant square, counters, hash and history), a freshly
\* constructed Position on which makeMove(m1) .. makeMove(mn) were applied,
\* whatever commands came before.
C13_PositionCommandEqualsFreshMoves ==
    NewGamePositionProcessed =>
        uciGame.position = FreshMoves(lastCmd.moves, Len(lastCmd.moves))

\* the part of C13 the code keeps: the position reached is the same on the
\* board, in the state fields and in the length of the history
PositionCommandKeepsBoard ==
    NewGamePositionProcessed =>
        /\ getFEN(uciGame.position) = getFEN(FreshMoves(lastCmd.moves, Len(lastCmd.moves)))
        /\ uciGame.position.board = FreshMoves(lastCmd.moves, Len(lastCmd.moves)).board
        /\ Len(uciGame.position.history) = Len(lastCmd.moves)

\* C19: after any sequence of `setoption name Depth value v` and `go [depth N]`
\* the depth with which a search is started lies in the advertised range
\* 1..20.
C19_SearchDepthInRange ==
    (goes >= 1 /\ sPc # "idle") => ai.depth \in 1..20

----------------------------------------------------------------------------
(* Kings moved back and forth: the repetition of positions *)

E2 == 12
E7 == 52

\* 4k3/8/8/8/8/8/8/4K3 w - - 0 1
KingsFEN ==
    << <<"4", "k", "3", "/", "8", "/", "8", "/", "8", "/", "8", "/", "8", "/", "8", "/", "4", "K", "3">>,
       <<"w">>,
       <<"-">>,
       <<"-">>,
       <<"0">>,
       <<"1">> >>

\* the same kings with a white rook, a material that mates:
\* 4k3/8/8/8/8/8/8/R3K3 w - - 0 1
KingsRookFEN ==
    << <<"4", "k", "3", "/", "8", "/", "8", "/", "8", "/", "8", "/", "8", "/", "8", "/", "R", "3", "K", "3">>,
       <<"w">>,
       <<"-">>,
       <<"-">>,
       <<"0">>,
       <<"1">> >>

RepetitionFENs == {KingsFEN, KingsRookFEN}

\* Ke2 Ke7 Ke1 Ke8
KingCycle ==
    << MakeMoveBits(E1, E2), MakeMoveBits(E8, E7), MakeMoveBits(E2, E1), MakeMoveBits(E7, E8) >>

\* the king moves offered: those of the cycle, and Kd1 Kd8 and back
KingMoves ==
    SeqToSet(KingCycle) \cup
        {MakeMoveBits(E1, D1), MakeMoveBits(D1, E1), MakeMoveBits(E8, D8), MakeMoveBits(D8, E8)}

\* the moves played after the position was set up
MaxPlies == 8

\* Position::setFromFEN on the position, as the tests set it up
SetUpPosition ==
    /\ UNCHANGED notGame
    /\ op = "Game"
    /\ \E fen \in RepetitionFENs :
       \E r \in {setFromFEN(fen, <<0, 0>>)} :
             /\ game' = [game EXCEPT !.position = r.pos]
             /\ ret' = r.ok
    /\ op' = "setFromFEN"
    /\ arg' = <<>>
    /\ before' = game
    /\ entry' = <<>>
    /\ steps' = 0
    /\ UNCHANGED <<playable, undone>>

\* Game::loadFEN, as the program sets a game up
SetUpGame ==
    /\ UNCHANGED notGame
    /\ op = "Game"
    /\ \E fen \in RepetitionFENs :
       \E r \in {loadFEN(game, fen, <<0, 0>>)} :
             /\ game' = r.game
             /\ ret' = r.ok
    /\ op' = "loadFEN"
    /\ arg' = <<>>
    /\ before' = game
    /\ entry' = <<>>
    /\ steps' = 0
    /\ UNCHANGED <<playable, undone>>

\* the tests' doMove, once generateLegalMoves has returned r.moves and left the
\* position r.pos: the first move with this origin and destination is made
DoMoveFound(r, move) ==
    IF \E i \in 1..Len(r.moves) :
           fromSquare(r.moves[i]) = fromSquare(move) /\ toSquare(r.moves[i]) = toSquare(move)
    THEN [ok |-> TRUE,
          pos |-> makeMove(r.pos,
                           r.moves[CHOOSE i \in 1..Len(r.moves) :
                                       /\ fromSquare(r.moves[i]) = fromSquare(move)
                                       /\ toSquare(r.moves[i]) = toSquare(move)
                                       /\ \A j \in 1..(i - 1) :
                                              \/ fromSquare(r.moves[j]) # fromSquare(move)
                                              \/ toSquare(r.moves[j]) # toSquare(move)])]
    ELSE [ok |-> FALSE, pos |-> r.pos]

\* the tests' doMove: generateLegalMoves on the position, then makeMove
PlayDoMove ==
    /\ UNCHANGED notGame
    /\ op \in {"setFromFEN", "doMove"}
    /\ steps < MaxPlies
    /\ \E move \in KingMoves :
       \E r \in {DoMoveFound(RunGenerateLegalMoves(game.position), move)} :
             /\ r.ok
             /\ game' = [game EXCEPT !.position = r.pos]
             /\ arg' = Append(arg, move)
    /\ op' = "doMove"
    /\ ret' = TRUE
    /\ before' = game
    /\ entry' = Append(entry, game.position)
    /\ steps' = steps + 1
    /\ UNCHANGED <<playable, undone>>

\* Position::makeMove alone, with a legal move given as a value
PlayMakeMove ==
    /\ UNCHANGED notGame
    /\ op \in {"setFromFEN", "makeMove"}
    /\ steps < MaxPlies
    /\ \E move \in KingMoves \cap SeqToSet(generateLegalMoves(game.position)) :
             /\ game' = [game EXCEPT !.position = makeMove(game.position, move)]
             /\ arg' = Append(arg, move)
    /\ op' = "makeMove"
    /\ ret' = TRUE
    /\ before' = game
    /\ entry' = Append(entry, game.position)
    /\ steps' = steps + 1
    /\ UNCHANGED <<playable, undone>>

\* Game::makeMove(Move)
PlayGameMove ==
    /\ UNCHANGED notGame
    /\ op \in {"loadFEN", "Game::makeMove"}
    /\ steps < MaxPlies
    /\ \E move \in KingMoves :
       \E r \in {GameMakeMove(game, move)} :
             /\ r.ok
             /\ game' = r.game
             /\ arg' = Append(arg, move)
    /\ op' = "Game::makeMove"
    /\ ret' = TRUE
    /\ before' = game
    /\ entry' = Append(entry, game.position)
    /\ steps' = steps + 1
    /\ UNCHANGED <<playable, undone>>

RepetitionNext ==
    \/ SetUpPosition
    \/ SetUpGame
    \/ PlayDoMove
    \/ PlayMakeMove
    \/ PlayGameMove

SpecRepetition == Init /\ [][RepetitionNext]_vars

\* the moves were played after a set-up of this specification
MovesPlayed == op \in {"doMove", "makeMove", "Game::makeMove"} /\ Len(arg) = Len(entry)

\* two Positions show the same position of the game
SamePosition(p, q) ==
    /\ p.board = q.board
    /\ p.stm = q.stm
    /\ p.castling = q.castling
    /\ p.epSquare = q.epSquare

\* how often the position reached has stood on the board since the set-up
\* (no move offered is irreversible)
Occurrences ==
    1 + Cardinality({i \in 1..Len(entry) : SamePosition(entry[i], game.position)})

\* C16: isDraw() is true as soon as the current hash has occurred three or
\* more times since the last irreversible move; from
\* 4k3/8/8/8/8/8/8/4K3 w - - 0 1, after one cycle Ke2 Ke7 Ke1 Ke8 the hash
\* equals the initial hash, the repetition count is 2 and isDraw() is false,
\* and after a second identical cycle the count is 3 and isDraw() is true.
C16_ThreefoldRepetition ==
    MovesPlayed =>
        /\ Occurrences >= 3 => isDraw(game.position)
        /\ (arg = KingCycle /\ game.position.byType[ROOK] = {}) =>
               /\ game.position.positionHash = entry[1].positionHash
               /\ repetitionCount(game.position) = 2
               /\ ~isDraw(game.position)
        /\ (arg = KingCycle \o KingCycle /\ game.position.byType[ROOK] = {}) =>
               /\ repetitionCount(game.position) = 3
               /\ isDraw(game.position)

\* the part of C16 that holds when the moves are made by Position::makeMove
\* alone: the hash returns, the count is the number of occurrences, and with
\* a material that mates the draw is reported exactly from the third
\* occurrence on
BareMovesCountOccurrences ==
    op = "makeMove" =>
        /\ repetitionCount(game.position) = Occurrences
        /\ SamePosition(entry[1], game.position) =>
               game.position.positionHash = entry[1].positionHash
        /\ game.position.byType[ROOK] # {} =>
               (isDraw(game.position) <=> Occurrences >= 3)

\* the hash statement of C16 alone, for the tests' doMove (generateLegalMoves
\* leaves the hash changed before each makeMove, so it does not hold)
DoMoveCycleKeepsHash ==
    (op = "doMove" /\ arg = KingCycle) =>
        game.position.positionHash = entry[1].positionHash

\* the draw statement of C16 alone, for a game played through Game::makeMove
\* (the hash updateGameResult hands to isDraw never equals one of the history,
\* so it does not hold)
GameMovesReportThreefold ==
    (op = "Game::makeMove" /\ Occurrences >= 3) => game.result = DRAW

\* two kings alone are a draw by their material from the first position on,
\* whatever the repetition count
KingsAloneAreDrawn ==
    (MovesPlayed /\ game.position.byType[ROOK] = {}) => isDraw(game.position)

----------------------------------------------------------------------------
(* One engine asked to search again and again: the age of the              *)
(* transposition table                                                      *)

\* the `go` commands of one session: one more than the values of a uint8_t
MaxSearches == 257

\* `position fen k7/8/8/8/8/8/1p6/K7 w - - 0 1`, sent before the first `go` of
\* the session
AgePosition == goes = 0 /\ UciPositionWith({PositionCommand(FALSE, PawnFEN, <<>>)})

\* `go depth 2`
AgeGo == UciGoUpTo({GoParams(TRUE, 2, -1)}, MaxSearches)

AgeNext ==
    \/ AgePosition
    \/ AgeGo
    \/ IterStart
    \/ NegamaxEnterWithin(MaxUciNodes)
    \/ QuiescenceEnterWithin(MaxUciNodes)
    \/ NegamaxReturn
    \/ QuiescenceReturn
    \/ RootReturn
    \/ UciBestMove

SpecAge == Init /\ [][AgeNext]_vars

\* the entries in use in the transposition table
StoredEntries(a) == {a.transpositionTable[x] : x \in DOMAIN a.transpositionTable}

\* C21: the age of the transposition table increases monotonically: each root
\* search that reaches iterative deepening uses an age strictly greater than
\* the age of every earlier search of the same engine, so an entry stored by
\* an earlier search never carries the age of the current search, for any
\* number of searches (more than 255 included).
C21_AgeIncreasesMonotonically ==
    [][ai'.ttAge # ai.ttAge =>
           /\ ai'.ttAge > ai.ttAge
           /\ \A e \in StoredEntries(ai) : e.age # ai'.ttAge]_vars

\* the part of C21 the code keeps: below 255 a search uses the age of the
\* search before it plus one, and nothing else changes the age
AgeIncrementsBelowWrap ==
    [][(ai.ttAge < 255 /\ ai'.ttAge # ai.ttAge) =>
           (ai'.ttAge = ai.ttAge + 1 /\ sPc = "idle" /\ sPc' # "idle")]_vars

\* an entry that an earlier search stored carries the age of the search that
\* begins
StaleEntryLooksCurrent ==
    /\ sPc = "iter"
    /\ sRoot.currentDepth = 1
    /\ sRoot.stage = "none"
    /\ \E e \in StoredEntries(ai) : e.age = ai.ttAge

----------------------------------------------------------------------------
(* Castling offered by the move generator *)

\* r3k2r/pppppppp/8/8/8/8/PPPPPPPP/R3K2R w KQkq - 0 1
CastlingPawnsFEN ==
    << <<"r", "3", "k", "2", "r", "/", "p", "p", "p", "p", "p", "p", "p", "p", "/", "8", "/", "8", "/", "8", "/", "8", "/", "P", "P", "P", "P", "P", "P", "P", "P", "/", "R", "3", "K", "2", "R">>,
       <<"w">>,
       <<"K", "Q", "k", "q">>,
       <<"-">>,
       <<"0">>,
       <<"1">> >>

\* the castling fields tried
RightsFields == { <<"K", "Q", "k", "q">>, <<"K", "q">>, <<"Q", "k">>, <<"-">> }

\* the pieces added to a position: an enemy rook, bishop or knight anywhere, an
\* enemy pawn in front of the home rank, a knight of the side to move on the
\* home rank
ExtraPieces(us) ==
    {[piece |-> makePiece(Flip(us), pt), sq |-> sq] : pt \in {ROOK, BISHOP, KNIGHT}, sq \in Squares}
        \cup {[piece |-> makePiece(Flip(us), PAWN), sq |-> sq] :
                  sq \in {x \in Squares : rankOf(x) = IF us = WHITE THEN RANK_2 ELSE RANK_7}}
        \cup {[piece |-> makePiece(us, KNIGHT), sq |-> sq] :
                  sq \in {x \in Squares : rankOf(x) = IF us = WHITE THEN RANK_1 ELSE RANK_8}}

\* the position of a FEN with one more piece on an empty square
WithExtraPiece(r, extra) ==
    IF r.pos.board[extra.sq] = NO_PIECE THEN putPiece(r.pos, extra.piece, extra.sq) ELSE r.pos

\* a position is set up: kings and rooks at home, with or without the pawns,
\* one of the castling fields, either side to move, and at most one more piece
CastlingSetUp ==
    /\ UNCHANGED notGame
    /\ op = "Game"
    /\ \E base \in {CastlingFEN, CastlingPawnsFEN} :
       \E stmField \in {<<"w">>, <<"b">>} :
       \E rights \in RightsFields :
       \E fen \in {[base EXCEPT ![2] = stmField, ![3] = rights]} :
       \E r \in {setFromFEN(fen, <<0, 0>>)} :
          /\ arg' = fen
          /\ ret' = r.ok
          /\ \/ game' = [game EXCEPT !.position = r.pos]
             \/ \E extra \in ExtraPieces(r.pos.stm) :
                   /\ r.pos.board[extra.sq] = NO_PIECE
                   /\ game' = [game EXCEPT !.position = WithExtraPiece(r, extra)]
    /\ op' = "setFromFEN"
    /\ before' = game
    /\ entry' = <<>>
    /\ steps' = 0
    /\ UNCHANGED <<playable, undone>>

\* MoveGen::generatePseudoLegalMoves on the position set up
CastlingGenerate ==
    /\ UNCHANGED notGame
    /\ op = "setFromFEN"
    /\ ret' = generatePseudoLegalMoves(game.position)
    /\ op' = "generatePseudoLegalMoves"
    /\ arg' = <<>>
    /\ before' = game
    /\ steps' = steps + 1
    /\ UNCHANGED <<game, playable, entry, undone>>

CastlingNext ==
    \/ CastlingSetUp
    \/ CastlingGenerate

SpecCastling == Init /\ [][CastlingNext]_vars

\* the four castlings: the right, the squares between king and rook, the
\* squares the king stands on, passes and reaches, and the move
Wings ==
    { [us |-> WHITE, right |-> WHITE_OO, between |-> {F1, G1}, path |-> {E1, F1, G1}, transit |-> F1,
       move |-> makeCastling(E1, G1)],
      [us |-> WHITE, right |-> WHITE_OOO, between |-> {B1, C1, D1}, path |-> {E1, D1, C1}, transit |-> D1,
       move |-> makeCastling(E1, C1)],
      [us |-> BLACK, right |-> BLACK_OO, between |-> {F8, G8}, path |-> {E8, F8, G8}, transit |-> F8,
       move |-> makeCastling(E8, G8)],
      [us |-> BLACK, right |-> BLACK_OOO, between |-> {B8, C8, D8}, path |-> {E8, D8, C8}, transit |-> D8,
       move |-> makeCastling(E8, C8)] }

Sign(x) == IF x > 0 THEN 1 ELSE IF x < 0 THEN -1 ELSE 0

\* the squares strictly between two squares of one line are empty
ClearBetween(p, from, to) ==
    LET df == fileOf(to) - fileOf(from)
        dr == rankOf(to) - rankOf(from)
        n == Max(Abs(df), Abs(dr))
    IN  \A k \in 1..(n - 1) :
            p.board[makeSquare(fileOf(from) + k * Sign(df), rankOf(from) + k * Sign(dr))] = NO_PIECE

\* by the rules of chess, the piece on `from` attacks `to`
AttacksByRules(p, from, to) ==
    LET pc == p.board[from]
        df == fileOf(to) - fileOf(from)
        dr == rankOf(to) - rankOf(from)
        straight == (df = 0) # (dr = 0)
        diagonal == Abs(df) = Abs(dr) /\ df # 0
    IN  /\ pc # NO_PIECE
        /\ CASE typeOf(pc) = PAWN -> Abs(df) = 1 /\ dr = (IF colorOf(pc) = WHITE THEN 1 ELSE -1)
             [] typeOf(pc) = KNIGHT -> {Abs(df), Abs(dr)} = {1, 2}
             [] typeOf(pc) = KING -> Max(Abs(df), Abs(dr)) = 1
             [] typeOf(pc) = BISHOP -> diagonal /\ ClearBetween(p, from, to)
             [] typeOf(pc) = ROOK -> straight /\ ClearBetween(p, from, to)
             [] OTHER -> (straight \/ diagonal) /\ ClearBetween(p, from, to)

\* by the rules of chess, a piece of colour `them` attacks sq
AttackedBy(p, sq, them) ==
    \E from \in Squares :
        p.board[from] # NO_PIECE /\ colorOf(p.board[from]) = them /\ AttacksByRules(p, from, sq)

\* the side to move is in check
InCheckByRules(p) ==
    \E sq \in Squares : p.board[sq] = makePiece(p.stm, KING) /\ AttackedBy(p, sq, Flip(p.stm))

\* the conditions under which the side to move may castle on a wing
MayCastle(p, w) ==
    /\ w.us = p.stm
    /\ HasRight(p.castling, w.right)
    /\ ~InCheckByRules(p)
    /\ \A sq \in w.between : p.board[sq] = NO_PIECE
    /\ \A sq \in w.path : ~AttackedBy(p, sq, Flip(p.stm))

\* C22: generatePseudoLegalMoves emits the castling move of the side to move
\* on a wing iff the castling right is still present, the side to move is not
\* in check, every square between king and rook is empty, and none of the
\* king's start, transit and destination squares is attacked by the opponent;
\* the b-file square may be attacked.
C22_CastlingEmittedIffAllowed ==
    op = "generatePseudoLegalMoves" =>
        \A w \in Wings : (w.move \in SeqToSet(ret)) <=> MayCastle(game.position, w)

\* castling on the queen's wing is emitted although the b-file square is
\* attacked
C22_Witness ==
    /\ op = "generatePseudoLegalMoves"
    /\ \E w \in Wings :
          /\ w.right \in {WHITE_OOO, BLACK_OOO}
          /\ w.move \in SeqToSet(ret)
          /\ \E sq \in w.between \ w.path : AttackedBy(game.position, sq, Flip(game.position.stm))

\* castling is withheld only because the square the king passes is attacked
TransitSquareAttacked ==
    /\ op = "generatePseudoLegalMoves"
    /\ \E w \in Wings :
          /\ w.us = game.position.stm
          /\ HasRight(game.position.castling, w.right)
          /\ w.move \notin SeqToSet(ret)
          /\ \A sq \in w.between : game.position.board[sq] = NO_PIECE
          /\ \A sq \in w.path :
                AttackedBy(game.position, sq, Flip(game.position.stm)) <=> sq = w.transit

----------------------------------------------------------------------------
(* AI::negamax called on positions without a legal move *)

\* black is mated: 7k/6Q1/6K1/8/8/8/8/8 b - - 0 1
MatedFEN ==
    << <<"7", "k", "/", "6", "Q", "1", "/", "6", "K", "1", "/", "8", "/", "8", "/", "8", "/", "8", "/", "8">>,
       <<"b">>,
       <<"-">>,
       <<"-">>,
       <<"0">>,
       <<"1">> >>

\* black is stalemated with the bare king: 7k/5Q2/6K1/8/8/8/8/8 b - - 0 1
StalematedFEN ==
    << <<"7", "k", "/", "5", "Q", "2", "/", "6", "K", "1", "/", "8", "/", "8", "/", "8", "/", "8", "/", "8">>,
       <<"b">>,
       <<"-">>,
       <<"-">>,
       <<"0">>,
       <<"1">> >>

\* black is stalemated with a pinned knight and a pinned bishop:
\* kn1R4/b1K5/8/8/8/8/8/R7 b - - 0 1
PinnedStalemateFEN ==
    << <<"k", "n", "1", "R", "4", "/", "b", "1", "K", "5", "/", "8", "/", "8", "/", "8", "/", "8", "/", "8", "/", "R", "7">>,
       <<"b">>,
       <<"-">>,
       <<"-">>,
       <<"0">>,
       <<"1">> >>

NoMoveFENs == {MatedFEN, StalematedFEN, PinnedStalemateFEN}

\* the windows of the calls: a wide one and windows of width one at several
\* heights
MateWindows ==
    { <<-10000, 10000>>, <<0, 1>>, <<-1, 0>>, <<-9991, -9990>>, <<9990, 9991>>,
      <<-400, -399>> }

MateDepths == {1, 3, 4}

MatePlies == {0, 1, 4}

\* the calls of one run
MaxCalls == 2

\* the nodes the calls of one run may count
MaxMateNodes == 200

\* AI::negamax(pos, depth, alpha, beta, ply) is called on a position without a
\* legal move, by an engine that has no time limit
NegamaxCalled ==
    /\ UNCHANGED <<perftVars, uciVars>>
    /\ sPc = "idle"
    /\ steps < MaxCalls
    /\ \E fen \in NoMoveFENs :
       \E depth \in MateDepths :
       \E window \in MateWindows :
       \E ply \in MatePlies :
       \E r \in {setFromFEN(fen, <<0, 0>>)} :
          /\ arg' = [fen |-> fen, depth |-> depth, alpha |-> window[1], beta |-> window[2],
                     ply |-> ply]
          /\ Becomes(CallOf(r.pos, ai, <<>>, "negamax", depth, window[1], window[2], ply))
    /\ op' = "negamax"
    /\ steps' = steps + 1
    /\ UNCHANGED <<game, playable, ret, before, entry, undone>>
    /\ UNCHANGED <<uciDepth, uciOut, clock, wraps, sRoot, sBest, goes, goAt, lastStop, iterLog>>

\* the call has returned to its caller
NegamaxBack ==
    /\ UNCHANGED <<perftVars, uciVars>>
    /\ sPc = "ret"
    /\ sStack = <<>>
    /\ op = "negamax"
    /\ sPc' = "idle"
    /\ ret' = sRet
    /\ op' = "returned"
    /\ UNCHANGED <<game, playable, arg, before, entry, undone, steps>>
    /\ UNCHANGED <<uciDepth, uciGame, ai, uciOut, clock, wraps, sRoot, sStack, sCall, sRet, sBest,
                   goes, goAt, lastStop, iterLog, lastExit>>

\* AI::quiescence finds no capture in a position without a legal move: it
\* makes no call, and none returns to it
MateNext ==
    \/ NegamaxCalled
    \/ NegamaxBack
    \/ NegamaxEnterWithin(MaxMateNodes)
    \/ QuiescenceEnterWithin(MaxMateNodes)
    \/ NegamaxReturn

SpecMate == Init /\ [][MateNext]_vars

\* C23: for every position with no legal move, AI::negamax called with depth
\* >= 1 and no time-out returns -10000 + ply when the side to move is in check
\* and 0 when it is not, whatever the window and whatever pruning
\* (transposition table, null move, reverse futility, razoring) is enabled at
\* that node.
C23_NoMoveScore ==
    op = "returned" =>
        ret = IF InCheckByRules(uciGame.position) THEN -10000 + arg.ply ELSE 0

\* reverse futility pruning returns the static evaluation before the moves are
\* generated (AI::negamax, lines 368-374)
ReverseFutilityReturns(pos, c, value) ==
    /\ c.depth <= 6
    /\ c.beta - c.alpha <= 1
    /\ \E ctz0 \in CtzOutcomes(pos) :
          value = evaluate(pos, ctz0) /\ evaluate(pos, ctz0) - 100 * c.depth >= c.beta

\* the null move search may fail high and return beta before the moves are
\* generated (AI::negamax, lines 328-362)
NullMoveReturns(pos, c, value) ==
    canDoNullMove(pos, c.depth, c.ply) /\ value = c.beta

\* C23 as the code has it: with no entry for the position in the transposition
\* table, a mated side gets -10000 + ply whatever the window, and a stalemated
\* side gets 0 unless the null move search failed high (the value is beta) or
\* reverse futility pruning applied (the value is the static evaluation),
\* both of which return before the moves are generated.
C23_NoMoveScoreAfterPruning ==
    op = "returned" =>
        IF InCheckByRules(uciGame.position)
        THEN ret = -10000 + arg.ply
        ELSE \/ ret = 0
             \/ NullMoveReturns(uciGame.position, arg, ret)
             \/ ReverseFutilityReturns(uciGame.position, arg, ret)

\* a mate four plies from the root is scored -9996 in a window of width one
C23_Witness ==
    /\ op = "returned"
    /\ arg.fen = MatedFEN
    /\ arg.ply = 4
    /\ arg.beta - arg.alpha = 1
    /\ ret = -9996

\* a stalemate is scored 0 at a node where the null move was tried and
\* reverse futility pruning was tested
StalemateScoredAfterNullMove ==
    /\ op = "returned"
    /\ arg.fen = PinnedStalemateFEN
    /\ canDoNullMove(uciGame.position, arg.depth, arg.ply)
    /\ arg.beta - arg.alpha = 1
    /\ ret = 0

\* a stalemate is scored with the value of beta by the null move
StalemateScoredBeta ==
    /\ op = "returned"
    /\ ~InCheckByRules(uciGame.position)
    /\ ret = arg.beta
    /\ ret # 0
    /\ ~ReverseFutilityReturns(uciGame.position, arg, ret)

----------------------------------------------------------------------------
(* The slot of the transposition table a negamax node stores into *)

\* 7k/8/8/8/8/8/8/K7 w - - 0 1
CornerKingsFEN ==
    << <<"7", "k", "/", "8", "/", "8", "/", "8", "/", "8", "/", "8", "/", "8", "/", "K", "7">>,
       <<"w">>,
       <<"-">>,
       <<"-">>,
       <<"0">>,
       <<"1">> >>

\* the hash of the node and the hash of another position whose hash falls
\* into the same slot of the table (hash % TT_SIZE)
NodeHash == setFromFEN(CornerKingsFEN, <<0, 0>>).pos.positionHash

OtherHash == setFromFEN(StalematedFEN, <<0, 0>>).pos.positionHash

\* what the slot may hold when the node is entered: nothing, or an entry of
\* the node's position or of the other one, searched to depth 0..3 in the
\* first or the second search of the engine.  An entry of the node's own
\* position is an upper bound above every score met, so that it cuts nothing.
SlotInputs ==
    {EmptyTTEntry} \cup
        {[key |-> k, depth |-> d, score |-> 5000, flag |-> UPPERBOUND, bestMove |-> 0,
          age |-> a] : k \in {NodeHash, OtherHash}, d \in 0..3, a \in 1..2}

\* AI::negamax is called with depth 1 or 2 and a wide window, in the first or
\* the second search of an engine whose table holds `slot` where the node's
\* hash falls
StoreCalled ==
    /\ UNCHANGED <<perftVars, uciVars>>
    /\ sPc = "idle"
    /\ steps < 1
    /\ \E slot \in SlotInputs :
       \E depth \in 1..2 :
       \E age \in 1..2 :
       \E r \in {setFromFEN(CornerKingsFEN, <<0, 0>>)} :
          /\ arg' = [slot |-> slot, depth |-> depth, hash |-> r.pos.positionHash]
          /\ Becomes(CallOf(r.pos,
                            [ai EXCEPT !.ttAge = age,
                                       !.transpositionTable =
                                           [x \in {TTIndex(r.pos.positionHash)} |-> slot]],
                            <<>>, "negamax", depth, -10000, 10000, 1))
    /\ op' = "negamax"
    /\ steps' = steps + 1
    /\ UNCHANGED <<game, playable, ret, before, entry, undone>>
    /\ UNCHANGED <<uciDepth, uciOut, clock, wraps, sRoot, sBest, goes, goAt, lastStop, iterLog>>

\* two bare kings: AI::quiescence finds no capture, makes no call, and none
\* returns to it
StoreNext ==
    \/ StoreCalled
    \/ NegamaxBack
    \/ NegamaxEnterWithin(MaxMateNodes)
    \/ QuiescenceEnterWithin(MaxMateNodes)
    \/ NegamaxReturn

SpecStore == Init /\ [][StoreNext]_vars

\* the replacement rule applied to the slot the node found
MayReplace(slot, hash, depth, age) ==
    slot.key = {} \/ slot.key = hash \/ slot.depth <= depth \/ slot.age # age

\* C24: at the end of a negamax node the slot of the transposition table is
\* overwritten iff it is empty, or holds the same key, or its stored depth is
\* not greater than the current depth, or its stored age differs from the age
\* of the current search; otherwise (an entry of another position, searched
\* deeper, stored during the current search) every field of the slot is left
\* unchanged.
C24_SlotOverwrittenIffAllowed ==
    (op = "returned" /\ "slot" \in DOMAIN arg) =>
        IF MayReplace(arg.slot, arg.hash, arg.depth, ai.ttAge)
        THEN /\ TTProbe(ai, arg.hash).key = arg.hash
             /\ TTProbe(ai, arg.hash).depth = arg.depth
             /\ TTProbe(ai, arg.hash).score = ret
             /\ TTProbe(ai, arg.hash).age = ai.ttAge
             /\ TTProbe(ai, arg.hash) # arg.slot
        ELSE TTProbe(ai, arg.hash) = arg.slot

\* the node found the entry of another position, searched deeper in the
\* current search, and left it
C24_Witness ==
    /\ op = "returned"
    /\ "slot" \in DOMAIN arg
    /\ arg.slot.key = OtherHash
    /\ arg.slot.depth > arg.depth
    /\ arg.slot.age = ai.ttAge
    /\ TTProbe(ai, arg.hash) = arg.slot

\* the node replaced the deeper entry of another position because an earlier
\* search had stored it
OlderEntryReplaced ==
    /\ op = "returned"
    /\ "slot" \in DOMAIN arg
    /\ arg.slot.key = OtherHash
    /\ arg.slot.depth > arg.depth
    /\ arg.slot.age # ai.ttAge
    /\ TTProbe(ai, arg.hash).key = arg.hash


\* ---------------------------------------------------------------------------
\* Iterative deepening as far as the aspiration window
\* ---------------------------------------------------------------------------

\* 6k1/4P3/5K2/8/8/8/8/8 b - - 0 1: Black's king before a pawn about to promote
PawnOnSeventhFEN ==
    << <<"6", "k", "1", "/", "4", "P", "3", "/", "5", "K", "2", "/", "8", "/", "8", "/", "8", "/", "8", "/", "8">>,
       <<"b">>,
       <<"-">>,
       <<"-">>,
       <<"0">>,
       <<"1">> >>

\* 8/8/8/8/5p2/k7/8/K7 b - - 0 1: Black a pawn up with the move
PassedPawnFEN ==
    << <<"8", "/", "8", "/", "8", "/", "8", "/", "5", "p", "2", "/", "k", "7", "/", "8", "/", "K", "7">>,
       <<"b">>,
       <<"-">>,
       <<"-">>,
       <<"0">>,
       <<"1">> >>

AspirationFENs == {PawnOnSeventhFEN, PassedPawnFEN}

\* the nodes a search to depth 5 may count
MaxAspNodes == 400

\* the half-width of the aspiration window
ASPIRATION_WINDOW == 50

\* `position fen ...` with one of the two positions, before the search
AspPosition ==
    goes = 0 /\ UciPositionWith({PositionCommand(FALSE, fen, <<>>) : fen \in AspirationFENs})

\* `go depth 5`
AspGo == UciGoWith({GoParams(TRUE, 5, -1)})

AspNext ==
    \/ AspPosition
    \/ AspGo
    \/ IterStart
    \/ NegamaxEnterWithin(MaxAspNodes)
    \/ QuiescenceEnterWithin(MaxAspNodes)
    \/ NegamaxReturn
    \/ QuiescenceReturn
    \/ RootReturn
    \/ UciBestMove

SpecAspiration == Init /\ [][AspNext]_vars

\* the step in which an iteration's result is adopted (AI.cpp:272-273)
Adopted == sPc = "ret" /\ sStack = <<>> /\ sRoot'.currentDepth = sRoot.currentDepth + 1

\* the iteration now ending started with the window around the previous score
Aspirated == sRoot.currentDepth >= 5 /\ sRoot.bestScore # INT_MIN

\* C25: in an iteration of depth >= 5 that started with the window
\* [prev - 50, prev + 50], a best score outside the window (score <= prev - 50
\* or score >= prev + 50) is adopted only after the tentative best move was
\* searched again with the full window
C25_ReSearchOutsideWindow ==
    [][(Adopted /\ Aspirated /\ sRoot.stage # "research") =>
           /\ sRoot'.bestScore > sRoot.bestScore - ASPIRATION_WINDOW
           /\ sRoot'.bestScore < sRoot.bestScore + ASPIRATION_WINDOW]_vars

\* the test the code makes (AI.cpp:259-260) with alpha already raised to the
\* best score: no second search unless the score left the window by 50 more
ReSearchOnlyBeyondTwiceTheWindow ==
    [][(Adopted /\ Aspirated /\ sRoot.stage # "research") =>
           /\ sRoot'.bestScore > sRoot.bestScore - 2 * ASPIRATION_WINDOW
           /\ sRoot'.bestScore < sRoot.bestScore + 2 * ASPIRATION_WINDOW]_vars

\* an iteration of depth 5 has been adopted
FifthIterationAdopted == sRoot.currentDepth = 6 /\ sPc = "iter"


\* ---------------------------------------------------------------------------
\* Position::see on the moves of a position
\* ---------------------------------------------------------------------------

\* 4k3/8/8/4p3/4Q3/8/8/4K3 w - - 0 1 (test_position.cpp, SEE_WinningCapture)
QueenPawnFEN ==
    << <<"4", "k", "3", "/", "8", "/", "8", "/", "4", "p", "3", "/", "4", "Q", "3", "/", "8", "/", "8", "/", "4", "K", "3">>,
       <<"w">>,
       <<"-">>,
       <<"-">>,
       <<"0">>,
       <<"1">> >>

SeeFENs == {QueenPawnFEN, KiwipeteFEN, EnPassantFEN, PromotionFEN}

\* one more piece of either colour for the position of QueenPawnFEN
SeeExtraPieces ==
    {[piece |-> makePiece(c, pt), sq |-> sq] :
        c \in {WHITE, BLACK}, pt \in {KNIGHT, BISHOP, ROOK, QUEEN}, sq \in Squares}
        \cup {[piece |-> makePiece(c, PAWN), sq |-> sq] :
                  c \in {WHITE, BLACK}, sq \in {x \in Squares : rankOf(x) \in RANK_2..RANK_7}}

\* a position is set up: one of the four, or the queen and the pawn with one
\* more piece
SeeSetUp ==
    /\ UNCHANGED notGame
    /\ op = "Game"
    /\ \/ \E fen \in SeeFENs :
          \E r \in {setFromFEN(fen, <<0, 0>>)} :
             /\ arg' = fen
             /\ ret' = r.ok
             /\ game' = [game EXCEPT !.position = r.pos]
       \/ \E r \in {setFromFEN(QueenPawnFEN, <<0, 0>>)} :
          \E extra \in SeeExtraPieces :
             /\ r.pos.board[extra.sq] = NO_PIECE
             /\ arg' = QueenPawnFEN
             /\ ret' = r.ok
             /\ game' = [game EXCEPT !.position = WithExtraPiece(r, extra)]
    /\ op' = "setFromFEN"
    /\ before' = game
    /\ entry' = <<>>
    /\ steps' = 0
    /\ UNCHANGED <<playable, undone>>

\* Position::see on one of the moves MoveGen::generatePseudoLegalMoves gives
\* for the position
SeeCalled ==
    /\ UNCHANGED notGame
    /\ op \in {"setFromFEN", "see"}
    /\ \E moves \in {generatePseudoLegalMoves(game.position)} :
       \E i \in 1..Len(moves) :
          /\ arg' = moves[i]
          /\ ret' = see(game.position, moves[i])
    /\ op' = "see"
    /\ before' = game
    /\ steps' = 1
    /\ UNCHANGED <<game, playable, entry, undone>>

SeeNext ==
    \/ SeeSetUp
    \/ SeeCalled

SpecSee == Init /\ [][SeeNext]_vars

\* the move takes a piece: the destination is occupied or the move is en passant
IsCaptureMove(p, m) == p.board[toSquare(m)] # NO_PIECE \/ moveType(m) = EN_PASSANT

\* the type of the piece the move takes
CapturedType(p, m) == IF moveType(m) = EN_PASSANT THEN PAWN ELSE typeOf(p.board[toSquare(m)])

\* the board after the capture, by the rules of chess
BoardAfterCapture(p, m) ==
    LET from == fromSquare(m)
        to == toSquare(m)
        taken == IF moveType(m) = EN_PASSANT THEN makeSquare(fileOf(to), rankOf(from)) ELSE to
    IN  [p EXCEPT !.board = [sq \in Squares |->
                                IF sq = to THEN p.board[from]
                                ELSE IF sq = from \/ sq = taken THEN NO_PIECE
                                ELSE p.board[sq]]]

\* no piece of the opponent attacks the destination once the capture is made
Undefended(p, m) ==
    ~AttackedBy(BoardAfterCapture(p, m), toSquare(m), Flip(colorOf(p.board[fromSquare(m)])))

\* the values of pawn, knight, bishop, rook and queen
ValueByRules(pt) ==
    CASE pt = PAWN -> 100 [] pt = KNIGHT -> 320 [] pt = BISHOP -> 330 [] pt = ROOK -> 500
      [] pt = QUEEN -> 900 [] OTHER -> 20000

\* C27: Position::see returns 0 for a move that is not a capture, and the
\* value of the captured piece (P=100, N=320, B=330, R=500, Q=900) for a
\* capture of a piece no enemy piece defends; the Position is left as it was
C27_SeeOfQuietAndUndefended ==
    op = "see" =>
        /\ ~IsCaptureMove(game.position, arg) => ret = 0
        /\ (IsCaptureMove(game.position, arg) /\ Undefended(game.position, arg)) =>
               ret = ValueByRules(CapturedType(game.position, arg))
        /\ game = before

\* the queen has taken the undefended pawn of SEE_WinningCapture
C27_Witness ==
    /\ op = "see"
    /\ Cardinality(occupied(game.position)) = 4
    /\ fromSquare(arg) = E4
    /\ game.position.board[E4] = makePiece(WHITE, QUEEN)
    /\ game.position.board[toSquare(arg)] = makePiece(BLACK, PAWN)
    /\ IsCaptureMove(game.position, arg)
    /\ Undefended(game.position, arg)
    /\ ret = 100

\* see has been asked about a quiet move
QuietMoveSeen == op = "see" /\ ~IsCaptureMove(game.position, arg) /\ ret = 0

\* an undefended rook has been taken by the queen
UndefendedRookSeen ==
    /\ op = "see"
    /\ IsCaptureMove(game.position, arg) /\ Undefended(game.position, arg)
    /\ CapturedType(game.position, arg) = ROOK
    /\ ret = 500

\* an undefended pawn has been taken en passant
EnPassantSeen ==
    op = "see" /\ moveType(arg) = EN_PASSANT /\ Undefended(game.position, arg) /\ ret = 100

\* a defended piece has been taken and see is below its value
DefendedCaptureSeen ==
    /\ op = "see"
    /\ IsCaptureMove(game.position, arg) /\ ~Undefended(game.position, arg)
    /\ ret < ValueByRules(CapturedType(game.position, arg))


\* ---------------------------------------------------------------------------
\* Magic::init and the lookups through the tables it fills
\* ---------------------------------------------------------------------------

\* Magic::relevantOccupancy, one direction: the squares of the ray short of
\* the edge the ray runs into
RECURSIVE RelevantRay(_, _)
RelevantRay(from, dir) ==
    LET to == from + dir
        atEdge == \/ dir = 8 /\ rankOf(to) = RANK_8
                  \/ dir = -8 /\ rankOf(to) = RANK_1
                  \/ dir = 1 /\ fileOf(to) = FILE_H
                  \/ dir = -1 /\ fileOf(to) = FILE_A
                  \/ dir = 9 /\ (rankOf(to) = RANK_8 \/ fileOf(to) = FILE_H)
                  \/ dir = 7 /\ (rankOf(to) = RANK_8 \/ fileOf(to) = FILE_A)
                  \/ dir = -7 /\ (rankOf(to) = RANK_1 \/ fileOf(to) = FILE_H)
                  \/ dir = -9 /\ (rankOf(to) = RANK_1 \/ fileOf(to) = FILE_A)
    IN  IF to < 0 \/ to >= 64 THEN {}
        ELSE IF dir = 1 /\ fileOf(to) = FILE_A THEN {}
        ELSE IF dir = -1 /\ fileOf(to) = FILE_H THEN {}
        ELSE IF dir = 9 /\ fileOf(to) = FILE_A THEN {}
        ELSE IF dir = 7 /\ fileOf(to) = FILE_H THEN {}
        ELSE IF dir = -7 /\ fileOf(to) = FILE_A THEN {}
        ELSE IF dir = -9 /\ fileOf(to) = FILE_H THEN {}
        ELSE IF atEdge THEN {}
        ELSE {to} \cup RelevantRay(to, dir)

\* Magic::relevantOccupancy
relevantOccupancy(sq, directions) == UNION {RelevantRay(sq, dir) : dir \in directions}

\* RookMagicNumbers[64]: each number by its eight bytes, the highest first
\* (0x0080001020400080 is <<0, 128, 0, 16, 32, 64, 0, 128>>)
RookMagicNumbers ==
    << <<0, 128, 0, 16, 32, 64, 0, 128>>, <<0, 64, 0, 16, 0, 32, 0, 64>>,
       <<0, 128, 8, 16, 0, 32, 0, 128>>, <<0, 128, 4, 8, 0, 16, 0, 128>>,
       <<0, 128, 2, 4, 0, 8, 0, 128>>, <<0, 128, 1, 2, 0, 4, 0, 128>>,
       <<0, 128, 0, 128, 1, 0, 2, 0>>, <<0, 128, 0, 32, 64, 128, 1, 0>>,
       <<0, 0, 128, 0, 32, 64, 0, 128>>, <<0, 0, 64, 0, 32, 0, 80, 0>>,
       <<0, 0, 128, 16, 0, 32, 0, 128>>, <<0, 0, 128, 8, 0, 16, 0, 128>>,
       <<0, 0, 128, 4, 0, 8, 0, 128>>, <<0, 0, 128, 2, 0, 4, 0, 128>>,
       <<0, 0, 128, 1, 0, 2, 0, 128>>, <<0, 0, 128, 0, 64, 128, 1, 0>>,
       <<0, 0, 32, 128, 0, 64, 0, 128>>, <<0, 0, 64, 64, 0, 32, 16, 0>>,
       <<0, 0, 128, 128, 16, 0, 32, 0>>, <<0, 0, 128, 128, 8, 0, 16, 0>>,
       <<0, 0, 128, 128, 4, 0, 8, 0>>, <<0, 0, 128, 128, 2, 0, 4, 0>>,
       <<0, 0, 1, 1, 0, 2, 0, 4>>, <<0, 0, 2, 0, 0, 64, 129, 4>>,
       <<0, 0, 32, 128, 128, 0, 64, 0>>, <<0, 0, 32, 0, 64, 0, 80, 0>>,
       <<0, 0, 16, 0, 128, 32, 0, 128>>, <<0, 0, 8, 0, 128, 16, 0, 128>>,
       <<0, 0, 4, 0, 128, 8, 0, 128>>, <<0, 0, 2, 0, 128, 4, 0, 128>>,
       <<0, 0, 1, 0, 128, 128, 2, 0>>, <<0, 0, 128, 0, 128, 0, 65, 0>>,
       <<0, 0, 32, 64, 0, 128, 0, 128>>, <<0, 0, 32, 0, 64, 64, 16, 0>>,
       <<0, 0, 16, 0, 128, 128, 32, 0>>, <<0, 0, 8, 0, 128, 128, 16, 0>>,
       <<0, 0, 4, 0, 128, 128, 8, 0>>, <<0, 0, 2, 0, 128, 128, 4, 0>>,
       <<0, 0, 2, 0, 1, 1, 0, 4>>, <<0, 0, 128, 0, 64, 128, 1, 0>>,
       <<0, 0, 32, 64, 0, 128, 128, 0>>, <<0, 0, 32, 0, 64, 0, 128, 128>>,
       <<0, 0, 16, 0, 32, 0, 128, 128>>, <<0, 0, 8, 0, 16, 0, 128, 128>>,
       <<0, 0, 4, 0, 8, 0, 128, 128>>, <<0, 0, 2, 0, 4, 0, 128, 128>>,
       <<0, 0, 1, 0, 2, 0, 128, 128>>, <<0, 0, 0, 64, 129, 2, 0, 4>>,
       <<0, 0, 32, 64, 0, 128, 0, 128>>, <<0, 0, 32, 0, 64, 0, 128, 128>>,
       <<0, 0, 16, 0, 32, 0, 128, 128>>, <<0, 0, 8, 0, 16, 0, 128, 128>>,
       <<0, 0, 4, 0, 8, 0, 128, 128>>, <<0, 0, 2, 0, 4, 0, 128, 128>>,
       <<0, 0, 128, 1, 0, 2, 0, 128>>, <<0, 0, 128, 0, 65, 0, 0, 128>>,
       <<0, 255, 252, 221, 252, 237, 113, 74>>, <<0, 127, 252, 221, 252, 237, 113, 74>>,
       <<0, 63, 255, 205, 255, 216, 128, 150>>, <<0, 0, 4, 8, 16, 0, 33, 1>>,
       <<0, 1, 0, 2, 4, 8, 0, 17>>, <<0, 1, 0, 2, 4, 0, 8, 1>>,
       <<0, 1, 0, 0, 130, 0, 4, 1>>, <<0, 1, 255, 250, 171, 250, 209, 162>> >>

\* BishopMagicNumbers[64], written the same way
BishopMagicNumbers ==
    << <<0, 2, 2, 2, 2, 2, 2, 0>>, <<0, 2, 2, 2, 2, 2, 0, 0>>,
       <<0, 4, 1, 2, 2, 0, 0, 0>>, <<0, 4, 4, 0, 128, 0, 0, 0>>,
       <<0, 1, 16, 64, 0, 0, 0, 0>>, <<0, 0, 130, 16, 64, 0, 0, 0>>,
       <<0, 0, 65, 4, 16, 64, 0, 0>>, <<0, 0, 16, 65, 4, 16, 64, 0>>,
       <<0, 0, 4, 4, 4, 4, 4, 0>>, <<0, 0, 2, 2, 2, 2, 2, 0>>,
       <<0, 0, 4, 1, 2, 2, 0, 0>>, <<0, 0, 4, 4, 0, 128, 0, 0>>,
       <<0, 0, 1, 16, 64, 0, 0, 0>>, <<0, 0, 0, 130, 16, 64, 0, 0>>,
       <<0, 0, 0, 65, 4, 16, 64, 0>>, <<0, 0, 0, 32, 130, 8, 32, 0>>,
       <<0, 4, 0, 8, 8, 8, 8, 0>>, <<0, 2, 0, 4, 4, 4, 4, 0>>,
       <<0, 1, 0, 2, 2, 2, 2, 0>>, <<0, 0, 128, 8, 2, 0, 64, 0>>,
       <<0, 0, 128, 4, 0, 160, 0, 0>>, <<0, 0, 32, 1, 0, 136, 64, 0>>,
       <<0, 0, 64, 0, 130, 8, 32, 0>>, <<0, 0, 32, 0, 65, 4, 16, 0>>,
       <<0, 2, 8, 0, 16, 16, 16, 0>>, <<0, 1, 4, 0, 8, 8, 8, 0>>,
       <<0, 0, 32, 128, 4, 1, 4, 0>>, <<0, 0, 64, 64, 4, 1, 2, 0>>,
       <<0, 0, 132, 0, 0, 128, 32, 0>>, <<0, 0, 64, 64, 2, 1, 16, 0>>,
       <<0, 0, 128, 128, 1, 4, 16, 0>>, <<0, 0, 64, 64, 0, 130, 8, 0>>,
       <<0, 1, 4, 16, 0, 32, 32, 0>>, <<0, 0, 130, 8, 0, 16, 16, 0>>,
       <<0, 0, 16, 68, 0, 8, 8, 0>>, <<0, 0, 2, 0, 128, 8, 0, 128>>,
       <<0, 0, 64, 64, 64, 4, 1, 0>>, <<0, 0, 128, 129, 0, 2, 1, 0>>,
       <<0, 1, 1, 1, 0, 2, 8, 0>>, <<0, 0, 128, 128, 128, 1, 4, 0>>,
       <<0, 0, 130, 8, 32, 0, 64, 0>>, <<0, 0, 65, 4, 16, 0, 32, 0>>,
       <<0, 0, 8, 32, 136, 0, 16, 0>>, <<0, 0, 0, 32, 17, 0, 8, 0>>,
       <<0, 0, 8, 1, 0, 64, 4, 0>>, <<0, 1, 1, 1, 1, 0, 2, 0>>,
       <<0, 2, 2, 2, 2, 0, 4, 0>>, <<0, 1, 1, 1, 1, 0, 2, 0>>,
       <<0, 0, 65, 4, 16, 64, 0, 0>>, <<0, 0, 32, 130, 8, 32, 0, 0>>,
       <<0, 0, 0, 32, 132, 16, 0, 0>>, <<0, 0, 0, 0, 32, 136, 0, 0>>,
       <<0, 0, 0, 16, 2, 2, 0, 0>>, <<0, 0, 4, 4, 8, 2, 0, 0>>,
       <<0, 4, 4, 4, 4, 4, 0, 0>>, <<0, 2, 2, 2, 2, 2, 0, 0>>,
       <<0, 0, 16, 65, 4, 16, 64, 0>>, <<0, 0, 0, 32, 130, 8, 32, 0>>,
       <<0, 0, 0, 0, 32, 132, 16, 0>>, <<0, 0, 0, 0, 0, 32, 136, 0>>,
       <<0, 0, 0, 0, 16, 2, 2, 0>>, <<0, 0, 0, 4, 4, 8, 2, 0>>,
       <<0, 0, 4, 4, 4, 4, 4, 0>>, <<0, 2, 2, 2, 2, 2, 2, 0>> >>

\* the byte k of a bitboard, byte 0 holding the squares 0..7
ByteOf(bb, k) ==
    (IF 8 * k \in bb THEN 1 ELSE 0) + (IF 8 * k + 1 \in bb THEN 2 ELSE 0) +
    (IF 8 * k + 2 \in bb THEN 4 ELSE 0) + (IF 8 * k + 3 \in bb THEN 8 ELSE 0) +
    (IF 8 * k + 4 \in bb THEN 16 ELSE 0) + (IF 8 * k + 5 \in bb THEN 32 ELSE 0) +
    (IF 8 * k + 6 \in bb THEN 64 ELSE 0) + (IF 8 * k + 7 \in bb THEN 128 ELSE 0)

\* a bitboard by its eight bytes, the lowest first
BytesOf(bb) ==
    <<ByteOf(bb, 0), ByteOf(bb, 1), ByteOf(bb, 2), ByteOf(bb, 3),
      ByteOf(bb, 4), ByteOf(bb, 5), ByteOf(bb, 6), ByteOf(bb, 7)>>

\* the sum of the byte products a[i] * m[k - i] of two 64-bit numbers, a by
\* its bytes from the lowest and m by its bytes from the highest
RECURSIVE Column(_, _, _, _)
Column(a, m, k, i) ==
    IF i > k THEN 0 ELSE a[i + 1] * m[8 - (k - i)] + Column(a, m, k, i + 1)

\* what the bytes 0..k of the product carry into byte k + 1
RECURSIVE Carry(_, _, _)
Carry(a, m, k) ==
    IF k < 0 THEN 0 ELSE (Column(a, m, k, 0) + Carry(a, m, k - 1)) \div 256

\* the 16 highest bits of the 64-bit product a * m (uint64_t: modulo 2^64)
Top16(a, m) ==
    LET t6 == Column(a, m, 6, 0) + Carry(a, m, 5)
        t7 == Column(a, m, 7, 0) + t6 \div 256
    IN  (t7 % 256) * 256 + (t6 % 256)

\* an index that keeps the lowest bits of the product instead of the highest
MagicIndexLow(e, occ) ==
    ((Column(BytesOf(occ \cap e.mask), e.magic, 1, 0) % 256) * 256
        + Column(BytesOf(occ \cap e.mask), e.magic, 0, 0)) % 2 ^ (64 - e.shift)

\* Magic::magicIndex: ((occupied & mask) * magic) >> shift, shift being 52..59
magicIndex(e, occ) == Top16(BytesOf(occ \cap e.mask), e.magic) \div 2 ^ (e.shift - 48)

\* Magic::init, the MagicEntry of a square: mask, magic and shift
MagicEntry(rook, sq) ==
    LET mask == relevantOccupancy(sq, IF rook THEN RookDirections ELSE BishopDirections)
    IN  [mask |-> mask,
         magic |-> IF rook THEN RookMagicNumbers[sq + 1] ELSE BishopMagicNumbers[sq + 1],
         shift |-> 64 - popCount(mask)]

\* Magic::init, the occupancy variation i of a mask: bit j of i puts the j-th
\* square of the mask, in popLsb order, on the board
Variation(mask, i) ==
    LET bits == BitsOf(mask)
    IN  {bits[j] : j \in {j \in 1..Len(bits) : (i \div 2 ^ (j - 1)) % 2 = 1}}

\* Magic::init is entered for the rook or the bishop table of one square; the
\* table is static storage and holds empty bitboards
MagicInitStart ==
    /\ UNCHANGED notGame
    /\ op = "Game"
    /\ \E rook \in BOOLEAN : \E sq \in Squares :
          /\ arg' = [rook |-> rook, sq |-> sq]
          /\ ret' = [x \in 0..(2 ^ popCount(MagicEntry(rook, sq).mask) - 1) |-> {}]
    /\ op' = "Magic::init"
    /\ before' = game
    /\ steps' = 0
    /\ UNCHANGED <<game, playable, entry, undone>>

\* Magic::init, one turn of the loop over the occupancy variations
MagicInitFill ==
    /\ UNCHANGED notGame
    /\ op = "Magic::init"
    /\ \E e \in {MagicEntry(arg.rook, arg.sq)} :
          /\ steps < 2 ^ popCount(e.mask)
          /\ \E occ \in {Variation(e.mask, steps)} :
                ret' = [ret EXCEPT ![magicIndex(e, occ)] =
                           slidingAttacks(arg.sq, occ,
                               IF arg.rook THEN RookDirections ELSE BishopDirections)]
    /\ steps' = steps + 1
    /\ UNCHANGED <<game, playable, op, arg, before, entry, undone>>

\* Magic::init has filled the table of the square
MagicInitDone ==
    /\ UNCHANGED notGame
    /\ op = "Magic::init"
    /\ steps = 2 ^ popCount(MagicEntry(arg.rook, arg.sq).mask)
    /\ op' = "Magic::initialised"
    /\ UNCHANGED <<game, playable, arg, ret, before, entry, undone, steps>>

MagicNext ==
    \/ MagicInitStart
    \/ MagicInitFill
    \/ MagicInitDone

SpecMagic == Init /\ [][MagicNext]_vars

\* Magic::rookAttacks and Magic::bishopAttacks on a filled table
TableAttacks(table, e, occ) == table[magicIndex(e, occ)]

\* the ray walk by files and ranks: the squares on a line with sq (rank or
\* file for the rook, diagonal for the bishop) with no occupied square
\* strictly between
RayReference(rook, sq, occ) ==
    {to \in Squares \ {sq} :
        LET df == fileOf(to) - fileOf(sq)
            dr == rankOf(to) - rankOf(sq)
            n == Max(Abs(df), Abs(dr))
        IN  /\ IF rook THEN df = 0 \/ dr = 0 ELSE Abs(df) = Abs(dr)
            /\ \A k \in 1..(n - 1) :
                  makeSquare(fileOf(sq) + k * Sign(df), rankOf(sq) + k * Sign(dr)) \notin occ}

\* the occupancies a filled table is asked about: every variation of the
\* mask, alone and with every square outside the mask occupied as well
Occupancies(e) ==
    {Variation(e.mask, i) \cup extra :
        i \in 0..(2 ^ popCount(e.mask) - 1), extra \in {{}, Squares \ e.mask}}

\* the lookups of a filled table agree with the ray walk
LookupsAgree(table, rook, sq, e) ==
    /\ \A occ \in Occupancies(e) : TableAttacks(table, e, occ) = RayReference(rook, sq, occ)
    /\ rook => popCount(TableAttacks(table, e, {})) = 14
    /\ ~rook => popCount(TableAttacks(table, e, {})) \in 7..13
    /\ (~rook /\ sq = F8) => \A occ \in Occupancies(e) : H1 \notin TableAttacks(table, e, occ)

\* C28: after Magic::init, rookAttacks(sq, occ) and bishopAttacks(sq, occ)
\* equal the ray walk that stops at and includes the first occupied square
\* and never wraps around an edge; rookAttacks(sq, 0) has 14 squares,
\* bishopAttacks(sq, 0) has 7 to 13, and bishopAttacks(F8, occ) never holds H1
C28_MagicEqualsRayWalk ==
    op = "Magic::initialised" => LookupsAgree(ret, arg.rook, arg.sq, MagicEntry(arg.rook, arg.sq))

\* the bishop table of F8 is filled and a lookup with blockers is made
C28_Witness ==
    /\ op = "Magic::initialised"
    /\ ~arg.rook /\ arg.sq = F8
    /\ TableAttacks(ret, MagicEntry(FALSE, F8), {makeSquare(6, 6)}) = RayReference(FALSE, F8, {makeSquare(6, 6)})
    /\ makeSquare(6, 6) \in TableAttacks(ret, MagicEntry(FALSE, F8), {makeSquare(6, 6)})

\* the rook table of A1, the largest, is filled
RookCornerFilled == op = "Magic::initialised" /\ arg.rook /\ arg.sq = A1 /\ steps = 4096

\* two variations of one mask have been written to one entry of a table
SharedEntryWritten ==
    /\ op = "Magic::init"
    /\ steps > 0
    /\ \E i \in 0..(steps - 1) :
          LET e == MagicEntry(arg.rook, arg.sq)
          IN  i # steps /\ steps < 2 ^ popCount(e.mask)
              /\ magicIndex(e, Variation(e.mask, i)) = magicIndex(e, Variation(e.mask, steps))


\* ---------------------------------------------------------------------------
\* Game::getResult after Game::reset, Game::makeMove and Game::loadFEN
\* ---------------------------------------------------------------------------

\* 7k/8/4Q1K1/8/8/8/8/8 w - - 0 1: Qe8 mates, Qf7 stalemates
MateInOneFEN ==
    << <<"7", "k", "/", "8", "/", "4", "Q", "1", "K", "1", "/", "8", "/", "8", "/", "8", "/", "8", "/", "8">>,
       <<"w">>,
       <<"-">>,
       <<"-">>,
       <<"0">>,
       <<"1">> >>

ResultFENs == {MateInOneFEN, MatedFEN, StalematedFEN, CastlingFEN, KingsFEN}

\* Game::loadFEN with the FEN of a finished or an unfinished game
ResultLoadFEN ==
    /\ UNCHANGED notGame
    /\ steps < MaxSteps
    /\ \E fen \in ResultFENs :
       \E r \in {loadFEN(game, fen, <<0, 0>>)} :
             /\ game' = r.game
             /\ ret' = r.ok
             /\ op' = "loadFEN" /\ arg' = fen
    /\ playable' = TRUE
    /\ before' = game
    /\ entry' = <<>>
    /\ steps' = steps + 1
    /\ UNCHANGED undone

ResultNext ==
    \/ Reset
    \/ ResultLoadFEN
    \/ DoGameMakeMove
    \/ DoGameMakeMoveString

SpecResult == Init /\ [][ResultNext]_vars

\* the result and the position p with its legal moves say the same
ResultMatches(result, p, moves) ==
    /\ (result = IN_PROGRESS) <=> (moves # <<>> /\ ~isDraw(p))
    /\ (result = WHITE_WINS) <=> (moves = <<>> /\ inCheck(p) /\ p.stm = BLACK)
    /\ (result = BLACK_WINS) <=> (moves = <<>> /\ inCheck(p) /\ p.stm = WHITE)
    /\ result \in {IN_PROGRESS, WHITE_WINS, BLACK_WINS, DRAW}

\* C29: after any sequence of Game::reset, Game::makeMove and Game::loadFEN
\* the result is IN_PROGRESS iff the position has a legal move and is not
\* drawn, WHITE_WINS or BLACK_WINS iff the side to move is checkmated, and
\* DRAW otherwise
C29_ResultMatchesPosition ==
    ResultMatches(game.result, game.position, generateLegalMoves(game.position))

\* a call made while the game was in progress leaves a result that matches
ResultMatchesAfterGameInProgress ==
    before.result = IN_PROGRESS =>
        ResultMatches(game.result, game.position, generateLegalMoves(game.position))

\* Game::makeMove has mated
MateDelivered ==
    op = "Game::makeMove" /\ ret /\ before.result = IN_PROGRESS /\ game.result = WHITE_WINS

\* Game::makeMove has stalemated
StalemateDelivered ==
    /\ op = "Game::makeMove" /\ ret /\ before.result = IN_PROGRESS /\ game.result = DRAW
    /\ generateLegalMoves(game.position) = <<>>

\* a position with legal moves was loaded after a finished game and the
\* result of the finished game stands
FinishedResultKept ==
    /\ op = "loadFEN" /\ ret /\ arg = CastlingFEN
    /\ before.result = WHITE_WINS /\ game.result = WHITE_WINS


\* ---------------------------------------------------------------------------
\* The castling rights along legal moves
\* ---------------------------------------------------------------------------

\* r3k2r/1P4P1/8/8/8/8/1p4p1/R3K2R w KQkq - 0 1: pawns that promote by
\* capturing a rook on its home square
PromotionCornersFEN ==
    << <<"r", "3", "k", "2", "r", "/", "1", "P", "4", "P", "1", "/", "8", "/", "8", "/", "8", "/", "8", "/", "1", "p", "4", "p", "1", "/", "R", "3", "K", "2", "R">>,
       <<"w">>,
       <<"K", "Q", "k", "q">>,
       <<"-">>,
       <<"0">>,
       <<"1">> >>

\* r3k2r/8/8/3b4/3B4/8/8/R3K2R w KQkq - 0 1: bishops that capture a rook on
\* its home square
BishopCornersFEN ==
    << <<"r", "3", "k", "2", "r", "/", "8", "/", "8", "/", "3", "b", "4", "/", "3", "B", "4", "/", "8", "/", "8", "/", "R", "3", "K", "2", "R">>,
       <<"w">>,
       <<"K", "Q", "k", "q">>,
       <<"-">>,
       <<"0">>,
       <<"1">> >>

RightsFENs == {CastlingFEN, PromotionCornersFEN, BishopCornersFEN}

\* Position::setFromFEN with kings and rooks at home, either side to move and
\* some of the castling rights
RightsSetUp ==
    /\ UNCHANGED notGame
    /\ op = "Game"
    /\ \E base \in RightsFENs :
       \E stmField \in {<<"w">>, <<"b">>} :
       \E rights \in RightsFields :
       \E fen \in {[base EXCEPT ![2] = stmField, ![3] = rights]} :
       \E r \in {setFromFEN(fen, <<0, 0>>)} :
          /\ arg' = fen
          /\ ret' = r.ok
          /\ game' = [game EXCEPT !.position = r.pos]
    /\ op' = "setFromFEN"
    /\ before' = game
    /\ entry' = <<>>
    /\ steps' = 0
    /\ UNCHANGED <<playable, undone>>

RightsNext ==
    \/ RightsSetUp
    \/ DoMakeMove

SpecRights == Init /\ [][RightsNext]_vars

\* every castling right of p has its king and its rook on their home squares
RightsImplyHome(p) ==
    /\ HasRight(p.castling, WHITE_OO) => p.board[E1] = W_KING /\ p.board[H1] = makePiece(WHITE, ROOK)
    /\ HasRight(p.castling, WHITE_OOO) => p.board[E1] = W_KING /\ p.board[A1] = makePiece(WHITE, ROOK)
    /\ HasRight(p.castling, BLACK_OO) => p.board[E8] = B_KING /\ p.board[H8] = makePiece(BLACK, ROOK)
    /\ HasRight(p.castling, BLACK_OOO) => p.board[E8] = B_KING /\ p.board[A8] = makePiece(BLACK, ROOK)

\* the castling rights c are among the rights b
RightsWithin(c, b) ==
    \A r \in {WHITE_OO, WHITE_OOO, BLACK_OO, BLACK_OOO} : HasRight(c, r) => HasRight(b, r)

\* the move made from position b has cleared in c the rights of a king that
\* moved and of a rook's home square it left or captured on
ClearedWhenTouched(b, move, c) ==
    LET from == fromSquare(move)
        to == toSquare(move)
    IN  /\ b.board[from] = W_KING => ~HasRight(c, WHITE_OO) /\ ~HasRight(c, WHITE_OOO)
        /\ b.board[from] = B_KING => ~HasRight(c, BLACK_OO) /\ ~HasRight(c, BLACK_OOO)
        /\ (from = A1 \/ to = A1) => ~HasRight(c, WHITE_OOO)
        /\ (from = H1 \/ to = H1) => ~HasRight(c, WHITE_OO)
        /\ (from = A8 \/ to = A8) => ~HasRight(c, BLACK_OOO)
        /\ (from = H8 \/ to = H8) => ~HasRight(c, BLACK_OO)

\* C30: from a position in which every castling right has its king and rook
\* at home, every position reached by legal makeMove calls has the same
\* property: a right is cleared when its king moves or castles, when its rook
\* moves and when its rook is captured, by a promoting pawn too; makeMove
\* never adds a right
C30_RightsImplyHomeSquares ==
    /\ op = "setFromFEN" => RightsImplyHome(game.position)
    /\ op = "makeMove" =>
          /\ RightsImplyHome(game.position)
          /\ RightsWithin(game.position.castling, before.position.castling)
          /\ ClearedWhenTouched(before.position, arg, game.position.castling)

\* a pawn has promoted by capturing the rook on a8 and the right is gone
C30_Witness ==
    /\ op = "makeMove"
    /\ moveType(arg) = PROMOTION /\ toSquare(arg) = A8
    /\ before.position.board[A8] = makePiece(BLACK, ROOK)
    /\ HasRight(before.position.castling, BLACK_OOO)
    /\ ~HasRight(game.position.castling, BLACK_OOO)
    /\ HasRight(game.position.castling, BLACK_OO)

\* a side has castled and lost both rights, the other side keeps its own
CastledRightsCleared ==
    /\ op = "makeMove"
    /\ moveType(arg) = CASTLING
    /\ before.position.castling = 15
    /\ game.position.castling \in {3, 12}

\* a bishop has captured a rook on its home square after the other side moved
BishopCapturedHomeRook ==
    /\ op = "makeMove" /\ steps = 2
    /\ typeOf(before.position.board[fromSquare(arg)]) = BISHOP
    /\ toSquare(arg) \in {A1, H1, A8, H8}
    /\ typeOf(before.position.board[toSquare(arg)]) = ROOK

\* a rook has captured the rook opposite: both sides lose the right of that wing
RookCapturedRook ==
    /\ op = "makeMove"
    /\ fromSquare(arg) = A1 /\ toSquare(arg) = A8
    /\ before.position.castling = 15
    /\ game.position.castling = 5

============================================================================
